---------------------------- MODULE Spec2Model ----------------------------
(***************************************************************************)
(* EcoTide scoring engine: a model of SustainabilityScorer                 *)
(* (src/ecotide_backend/sustainability_score.py) and of the way app.py     *)
(* shares one scorer among its request threads.                            *)
(*                                                                         *)
(* Text is modelled character by character: a Python str is a sequence of  *)
(* one-character strings, so that `keyword in title_lower` is a real       *)
(* substring test and str.lower() really maps characters.  A character     *)
(* outside ASCII is written by its code point ("U+0427").                  *)
(*                                                                         *)
(* A Python call that may raise returns an outcome record: [exc |-> TRUE]  *)
(* when it raises, [exc |-> FALSE, val |-> v] when it returns v.           *)
(* Numbers with a fractional part are kept as integers: rule scores and    *)
(* confidences in hundredths, CO2 factors in tenths.                       *)
(***************************************************************************)
EXTENDS Integers, Sequences, FiniteSets, TLC

VARIABLES
  model,          \* self.model: None or the classifier
  vectorizer,     \* self.vectorizer: None or the TF-IDF vectorizer
  label_encoder,  \* self.label_encoder: None or the label decoder
  stats,          \* self.stats
  startup,        \* what load_or_train_model did, once it has run
  call,           \* the last completed score_product call and what it returned
  pc,             \* request threads: where each stands in score_product
  frame,          \* request threads: the locals of each one's score_product
  snapshot,       \* what the last get_stats call returned, in its caller's hands
  probe           \* one direct call of a method: its argument and what it returned

vars ==
  <<model, vectorizer, label_encoder, stats, startup, call, pc, frame,
    snapshot, probe>>

----------------------------------------------------------------------------
(* Python values *)

None == "None"

\* bool(x) of an attribute that holds None or an sklearn object
Truthy(x) == x # None

Raise == [exc |-> TRUE]

Ok(v) == [exc |-> FALSE, val |-> v]

\* a str value, and the one non-str value a caller may pass (None)
Str(chars) == [type |-> "str", chars |-> chars]

NoneValue == [type |-> "NoneType", chars |-> <<>>]

----------------------------------------------------------------------------
(* str operations *)

UpperLetters ==
  <<"A","B","C","D","E","F","G","H","I","J","K","L","M",
    "N","O","P","Q","R","S","T","U","V","W","X","Y","Z">>

LowerLetters ==
  <<"a","b","c","d","e","f","g","h","i","j","k","l","m",
    "n","o","p","q","r","s","t","u","v","w","x","y","z">>

\* the Cyrillic capitals used in the titles below, with their small letters
UpperOther == <<"U+042D","U+0427">>

LowerOther == <<"U+044D","U+0447">>

\* str.lower() on one character
lower_char(c) ==
  IF \E i \in 1..Len(UpperLetters) : UpperLetters[i] = c
    THEN LowerLetters[CHOOSE i \in 1..Len(UpperLetters) : UpperLetters[i] = c]
    ELSE IF \E i \in 1..Len(UpperOther) : UpperOther[i] = c
      THEN LowerOther[CHOOSE i \in 1..Len(UpperOther) : UpperOther[i] = c]
      ELSE c

\* s.lower()
str_lower(s) == [i \in 1..Len(s) |-> lower_char(s[i])]

\* x.lower() for any value x: AttributeError unless x is a str
lower(x) == IF x.type = "str" THEN Ok(str_lower(x.chars)) ELSE Raise

\* the containment test the other way round: `s in sub`
str_contained(s, sub) ==
  \E i \in 0..(Len(sub) - Len(s)) : \A j \in 1..Len(s) : sub[i + j] = s[j]

\* `sub in s` for two strs
str_contains(s, sub) ==
  \E i \in 0..(Len(s) - Len(sub)) : \A j \in 1..Len(sub) : s[i + j] = sub[j]

\* any(word in s for word in words)
any_in(s, words) == \E k \in 1..Len(words) : str_contains(s, words[k])

\* str.isspace() on one character
is_space(c) == c \in {" ", "\t", "\n"}

\* len(s.split()): the number of maximal runs of non-whitespace characters
split_len(s) ==
  Cardinality({i \in 1..Len(s) :
                 /\ ~is_space(s[i])
                 /\ (i = 1 \/ is_space(s[i - 1]))})

\* str(x): the text of a str, "None" for None
py_str(x) == IF x.type = "str" THEN x.chars ELSE <<"N","o","n","e">>

\* a pattern that leaves digits in place as well: [^a-zA-Z0-9\s]
kept_by_pattern_and_digits(c) ==
  \/ \E i \in 1..Len(LowerLetters) : LowerLetters[i] = c
  \/ \E i \in 1..Len(UpperLetters) : UpperLetters[i] = c
  \/ c \in {"0","1","2","3","4","5","6","7","8","9"}
  \/ is_space(c)

\* whether the pattern [^a-zA-Z\s] leaves the character in place
kept_by_pattern(c) ==
  \/ \E i \in 1..Len(LowerLetters) : LowerLetters[i] = c
  \/ \E i \in 1..Len(UpperLetters) : UpperLetters[i] = c
  \/ is_space(c)

\* re.sub(r'[^a-zA-Z\s]', '', s)
re_sub_special(s) == SelectSeq(s, kept_by_pattern)

RECURSIVE replace_two_spaces(_)
\* s.replace('  ', ' '): one pass from the left over the pairs of spaces
replace_two_spaces(s) ==
  IF Len(s) < 2 THEN s
  ELSE IF s[1] = " " /\ s[2] = " "
    THEN <<" ">> \o replace_two_spaces(SubSeq(s, 3, Len(s)))
    ELSE <<s[1]>> \o replace_two_spaces(SubSeq(s, 2, Len(s)))

\* a prepare_features that also replaces each pair of spaces by one space
prepare_features_pairs(product_titles) ==
  [i \in 1..Len(product_titles) |->
     Str(replace_two_spaces(
           SelectSeq(str_lower(py_str(product_titles[i])), kept_by_pattern)))]

\* prepare_features: each title as a lower-cased str without the characters
\* the pattern removes
prepare_features(product_titles) ==
  [i \in 1..Len(product_titles) |->
     Str(re_sub_special(str_lower(py_str(product_titles[i]))))]

----------------------------------------------------------------------------
(* The lexicon (SustainabilityScorer.__init__ and the tables local to the  *)
(* enrichment methods)                                                     *)

Grades == {"A", "B", "C", "D", "E"}

\* sustainability_keywords['excellent']
kw_excellent ==
  << <<"o","r","g","a","n","i","c">>,
     <<"s","u","s","t","a","i","n","a","b","l","e">>,
     <<"e","c","o","-","f","r","i","e","n","d","l","y">>,
     <<"r","e","c","y","c","l","e","d">>,
     <<"b","a","m","b","o","o">>,
     <<"h","e","m","p">>,
     <<"f","a","i","r"," ","t","r","a","d","e">>,
     <<"c","a","r","b","o","n"," ","n","e","u","t","r","a","l">>,
     <<"b","i","o","d","e","g","r","a","d","a","b","l","e">>,
     <<"r","e","n","e","w","a","b","l","e">>,
     <<"s","o","l","a","r">>,
     <<"w","i","n","d"," ","p","o","w","e","r">>,
     <<"u","p","c","y","c","l","e","d">>,
     <<"z","e","r","o"," ","w","a","s","t","e">>,
     <<"c","o","m","p","o","s","t","a","b","l","e">> >>

\* a 'good' tier that repeats 'organic' of the excellent tier
kw_good_with_organic ==
  << <<"r","e","c","y","c","l","a","b","l","e">>,
     <<"e","n","e","r","g","y"," ","e","f","f","i","c","i","e","n","t">>,
     <<"m","i","n","i","m","a","l"," ","p","a","c","k","a","g","i","n","g">>,
     <<"l","o","c","a","l">>,
     <<"n","a","t","u","r","a","l">>,
     <<"r","e","u","s","a","b","l","e">>,
     <<"d","u","r","a","b","l","e">>,
     <<"l","o","n","g","-","l","a","s","t","i","n","g">>,
     <<"r","e","f","i","l","l","a","b","l","e">>,
     <<"p","l","a","n","t","-","b","a","s","e","d">>,
     <<"o","r","g","a","n","i","c">> >>


\* sustainability_keywords['good']
kw_good ==
  << <<"r","e","c","y","c","l","a","b","l","e">>,
     <<"e","n","e","r","g","y"," ","e","f","f","i","c","i","e","n","t">>,
     <<"m","i","n","i","m","a","l"," ","p","a","c","k","a","g","i","n","g">>,
     <<"l","o","c","a","l">>,
     <<"n","a","t","u","r","a","l">>,
     <<"r","e","u","s","a","b","l","e">>,
     <<"d","u","r","a","b","l","e">>,
     <<"l","o","n","g","-","l","a","s","t","i","n","g">>,
     <<"r","e","f","i","l","l","a","b","l","e">>,
     <<"p","l","a","n","t","-","b","a","s","e","d">> >>

\* sustainability_keywords['average']
kw_average ==
  << <<"s","t","a","n","d","a","r","d">>,
     <<"c","o","n","v","e","n","t","i","o","n","a","l">>,
     <<"r","e","g","u","l","a","r">>,
     <<"b","a","s","i","c">>,
     <<"e","c","o","n","o","m","y">> >>

\* sustainability_keywords['poor']
kw_poor ==
  << <<"d","i","s","p","o","s","a","b","l","e">>,
     <<"s","i","n","g","l","e","-","u","s","e">>,
     <<"p","l","a","s","t","i","c">>,
     <<"n","o","n","-","r","e","c","y","c","l","a","b","l","e">>,
     <<"p","e","t","r","o","l","e","u","m">>,
     <<"s","y","n","t","h","e","t","i","c">>,
     <<"c","h","e","m","i","c","a","l">>,
     <<"a","r","t","i","f","i","c","i","a","l">>,
     <<"f","a","s","t"," ","f","a","s","h","i","o","n">>,
     <<"c","h","e","a","p">> >>

\* sustainability_keywords['very_poor']
kw_very_poor ==
  << <<"t","o","x","i","c">>,
     <<"h","a","r","m","f","u","l">>,
     <<"w","a","s","t","e","f","u","l">>,
     <<"p","o","l","l","u","t","i","n","g">>,
     <<"d","e","s","t","r","u","c","t","i","v","e">>,
     <<"n","o","n","-","b","i","o","d","e","g","r","a","d","a","b","l","e">>,
     <<"e","x","c","e","s","s","i","v","e"," ","p","a","c","k","a","g","i","n","g">>,
     <<"p","l","a","n","n","e","d"," ","o","b","s","o","l","e","s","c","e","n","c","e">> >>

\* self.sustainability_keywords, in the dict's insertion order (the order .items() iterates)
sustainability_keywords ==
  << [category |-> "excellent", keywords |-> kw_excellent],
     [category |-> "good", keywords |-> kw_good],
     [category |-> "average", keywords |-> kw_average],
     [category |-> "poor", keywords |-> kw_poor],
     [category |-> "very_poor", keywords |-> kw_very_poor] >>

\* The lexicon of DataProcessor.__init__ (ecotide_ml/data_processor.py), which
\* the feature engineering of the training pipeline reads

\* DataProcessor: sustainability_keywords['excellent']
dp_kw_excellent ==
  << <<"o","r","g","a","n","i","c">>,
     <<"s","u","s","t","a","i","n","a","b","l","e">>,
     <<"e","c","o","-","f","r","i","e","n","d","l","y">>,
     <<"r","e","c","y","c","l","e","d">>,
     <<"b","a","m","b","o","o">>,
     <<"h","e","m","p">>,
     <<"f","a","i","r"," ","t","r","a","d","e">>,
     <<"c","a","r","b","o","n"," ","n","e","u","t","r","a","l">>,
     <<"b","i","o","d","e","g","r","a","d","a","b","l","e">>,
     <<"r","e","n","e","w","a","b","l","e">>,
     <<"s","o","l","a","r">>,
     <<"w","i","n","d"," ","p","o","w","e","r">>,
     <<"u","p","c","y","c","l","e","d">>,
     <<"z","e","r","o"," ","w","a","s","t","e">>,
     <<"c","o","m","p","o","s","t","a","b","l","e">>,
     <<"c","r","u","e","l","t","y","-","f","r","e","e">>,
     <<"v","e","g","a","n">>,
     <<"p","l","a","n","t","-","b","a","s","e","d">>,
     <<"b","i","o","-","b","a","s","e","d">>,
     <<"p","o","s","t","-","c","o","n","s","u","m","e","r">>,
     <<"f","s","c"," ","c","e","r","t","i","f","i","e","d">> >>

\* DataProcessor: sustainability_keywords['good']
dp_kw_good ==
  << <<"r","e","c","y","c","l","a","b","l","e">>,
     <<"e","n","e","r","g","y"," ","e","f","f","i","c","i","e","n","t">>,
     <<"m","i","n","i","m","a","l"," ","p","a","c","k","a","g","i","n","g">>,
     <<"l","o","c","a","l">>,
     <<"n","a","t","u","r","a","l">>,
     <<"r","e","u","s","a","b","l","e">>,
     <<"d","u","r","a","b","l","e">>,
     <<"l","o","n","g","-","l","a","s","t","i","n","g">>,
     <<"r","e","f","i","l","l","a","b","l","e">>,
     <<"g","l","a","s","s">>,
     <<"w","o","o","d">>,
     <<"c","o","t","t","o","n">>,
     <<"w","o","o","l">>,
     <<"l","i","n","e","n">>,
     <<"c","o","r","k">>,
     <<"c","e","r","a","m","i","c">>,
     <<"s","t","e","e","l">>,
     <<"a","l","u","m","i","n","u","m">> >>

\* DataProcessor: sustainability_keywords['average']
dp_kw_average ==
  << <<"s","t","a","n","d","a","r","d">>,
     <<"c","o","n","v","e","n","t","i","o","n","a","l">>,
     <<"r","e","g","u","l","a","r">>,
     <<"b","a","s","i","c">>,
     <<"e","c","o","n","o","m","y">>,
     <<"t","r","a","d","i","t","i","o","n","a","l">>,
     <<"c","l","a","s","s","i","c">>,
     <<"n","o","r","m","a","l">>,
     <<"t","y","p","i","c","a","l">>,
     <<"o","r","d","i","n","a","r","y">> >>

\* DataProcessor: sustainability_keywords['poor']
dp_kw_poor ==
  << <<"d","i","s","p","o","s","a","b","l","e">>,
     <<"s","i","n","g","l","e","-","u","s","e">>,
     <<"p","l","a","s","t","i","c">>,
     <<"n","o","n","-","r","e","c","y","c","l","a","b","l","e">>,
     <<"p","e","t","r","o","l","e","u","m">>,
     <<"s","y","n","t","h","e","t","i","c">>,
     <<"c","h","e","m","i","c","a","l">>,
     <<"a","r","t","i","f","i","c","i","a","l">>,
     <<"f","a","s","t"," ","f","a","s","h","i","o","n">>,
     <<"c","h","e","a","p">>,
     <<"p","o","l","y","e","s","t","e","r">>,
     <<"n","y","l","o","n">>,
     <<"a","c","r","y","l","i","c">>,
     <<"p","o","l","y","s","t","y","r","e","n","e">>,
     <<"p","v","c">> >>

\* DataProcessor: sustainability_keywords['very_poor']
dp_kw_very_poor ==
  << <<"t","o","x","i","c">>,
     <<"h","a","r","m","f","u","l">>,
     <<"w","a","s","t","e","f","u","l">>,
     <<"p","o","l","l","u","t","i","n","g">>,
     <<"d","e","s","t","r","u","c","t","i","v","e">>,
     <<"n","o","n","-","b","i","o","d","e","g","r","a","d","a","b","l","e">>,
     <<"e","x","c","e","s","s","i","v","e"," ","p","a","c","k","a","g","i","n","g">>,
     <<"p","l","a","n","n","e","d"," ","o","b","s","o","l","e","s","c","e","n","c","e">>,
     <<"m","i","c","r","o","p","l","a","s","t","i","c","s">>,
     <<"f","o","r","m","a","l","d","e","h","y","d","e">>,
     <<"l","e","a","d">>,
     <<"m","e","r","c","u","r","y">>,
     <<"b","e","n","z","e","n","e">> >>

\* DataProcessor: self.sustainability_keywords, in the dict's insertion order
dp_sustainability_keywords ==
  << [category |-> "excellent", keywords |-> dp_kw_excellent],
     [category |-> "good", keywords |-> dp_kw_good],
     [category |-> "average", keywords |-> dp_kw_average],
     [category |-> "poor", keywords |-> dp_kw_poor],
     [category |-> "very_poor", keywords |-> dp_kw_very_poor] >>


\* category_keywords['electronics']
ck_electronics ==
  << <<"p","h","o","n","e">>,
     <<"l","a","p","t","o","p">>,
     <<"c","o","m","p","u","t","e","r">>,
     <<"t","a","b","l","e","t">>,
     <<"h","e","a","d","p","h","o","n","e","s">>,
     <<"s","p","e","a","k","e","r">>,
     <<"t","v">>,
     <<"c","a","m","e","r","a">> >>

\* category_keywords['clothing']
ck_clothing ==
  << <<"s","h","i","r","t">>,
     <<"t","-","s","h","i","r","t">>,
     <<"d","r","e","s","s">>,
     <<"p","a","n","t","s">>,
     <<"j","e","a","n","s">>,
     <<"j","a","c","k","e","t">>,
     <<"s","h","o","e","s">>,
     <<"s","n","e","a","k","e","r","s">>,
     <<"s","w","e","a","t","e","r">> >>

\* a food keyword list without 'organic'
ck_food_without_organic ==
  << <<"s","n","a","c","k">>,
     <<"c","o","f","f","e","e">>,
     <<"t","e","a">>,
     <<"c","h","o","c","o","l","a","t","e">>,
     <<"n","u","t","s">>,
     <<"s","u","p","p","l","e","m","e","n","t">>,
     <<"v","i","t","a","m","i","n">> >>


\* category_keywords['food']
ck_food ==
  << <<"o","r","g","a","n","i","c">>,
     <<"s","n","a","c","k">>,
     <<"c","o","f","f","e","e">>,
     <<"t","e","a">>,
     <<"c","h","o","c","o","l","a","t","e">>,
     <<"n","u","t","s">>,
     <<"s","u","p","p","l","e","m","e","n","t">>,
     <<"v","i","t","a","m","i","n">> >>

\* category_keywords['home']
ck_home ==
  << <<"f","u","r","n","i","t","u","r","e">>,
     <<"c","h","a","i","r">>,
     <<"t","a","b","l","e">>,
     <<"l","a","m","p">>,
     <<"d","e","c","o","r">>,
     <<"p","i","l","l","o","w">>,
     <<"b","l","a","n","k","e","t">>,
     <<"s","t","o","r","a","g","e">> >>

\* category_keywords['beauty']
ck_beauty ==
  << <<"m","o","i","s","t","u","r","i","z","e","r">>,
     <<"s","h","a","m","p","o","o">>,
     <<"s","o","a","p">>,
     <<"l","o","t","i","o","n">>,
     <<"c","r","e","a","m">>,
     <<"o","i","l">>,
     <<"c","o","s","m","e","t","i","c">>,
     <<"p","e","r","f","u","m","e">> >>

\* category_keywords['toys']
ck_toys ==
  << <<"t","o","y">>,
     <<"g","a","m","e">>,
     <<"p","u","z","z","l","e">>,
     <<"d","o","l","l">>,
     <<"a","c","t","i","o","n"," ","f","i","g","u","r","e">>,
     <<"b","o","a","r","d"," ","g","a","m","e">>,
     <<"e","d","u","c","a","t","i","o","n","a","l">> >>

\* category_keywords['books']
ck_books ==
  << <<"b","o","o","k">>,
     <<"n","o","v","e","l">>,
     <<"t","e","x","t","b","o","o","k">>,
     <<"j","o","u","r","n","a","l">>,
     <<"n","o","t","e","b","o","o","k">>,
     <<"d","i","a","r","y">>,
     <<"m","a","n","u","a","l">> >>

\* category_keywords['automotive']
ck_automotive ==
  << <<"c","a","r">>,
     <<"a","u","t","o">>,
     <<"v","e","h","i","c","l","e">>,
     <<"t","i","r","e">>,
     <<"o","i","l">>,
     <<"b","r","a","k","e">>,
     <<"e","n","g","i","n","e">>,
     <<"b","a","t","t","e","r","y">> >>

\* category_keywords['garden']
ck_garden ==
  << <<"p","l","a","n","t">>,
     <<"s","e","e","d">>,
     <<"f","e","r","t","i","l","i","z","e","r">>,
     <<"t","o","o","l">>,
     <<"g","a","r","d","e","n">>,
     <<"l","a","w","n">>,
     <<"o","u","t","d","o","o","r">>,
     <<"s","o","l","a","r">> >>

\* category_keywords['health']
ck_health ==
  << <<"m","e","d","i","c","a","l">>,
     <<"h","e","a","l","t","h">>,
     <<"f","i","t","n","e","s","s">>,
     <<"e","x","e","r","c","i","s","e">>,
     <<"y","o","g","a">>,
     <<"p","r","o","t","e","i","n">>,
     <<"s","u","p","p","l","e","m","e","n","t">> >>

\* category_keywords of _detect_category, in declaration order
category_keywords ==
  << [category |-> "electronics", keywords |-> ck_electronics],
     [category |-> "clothing", keywords |-> ck_clothing],
     [category |-> "food", keywords |-> ck_food],
     [category |-> "home", keywords |-> ck_home],
     [category |-> "beauty", keywords |-> ck_beauty],
     [category |-> "toys", keywords |-> ck_toys],
     [category |-> "books", keywords |-> ck_books],
     [category |-> "automotive", keywords |-> ck_automotive],
     [category |-> "garden", keywords |-> ck_garden],
     [category |-> "health", keywords |-> ck_health] >>

\* a recyclable keyword list without 'cardboard'
recyclable_keywords_without_cardboard ==
  << <<"m","e","t","a","l">>,
     <<"a","l","u","m","i","n","u","m">>,
     <<"s","t","e","e","l">>,
     <<"g","l","a","s","s">>,
     <<"p","a","p","e","r">>,
     <<"r","e","c","y","c","l","a","b","l","e">> >>

\* recyclable_keywords of _assess_recyclability
recyclable_keywords ==
  << <<"m","e","t","a","l">>,
     <<"a","l","u","m","i","n","u","m">>,
     <<"s","t","e","e","l">>,
     <<"g","l","a","s","s">>,
     <<"p","a","p","e","r">>,
     <<"c","a","r","d","b","o","a","r","d">>,
     <<"r","e","c","y","c","l","a","b","l","e">> >>

non_recyclable_keywords ==
  << <<"c","o","m","p","o","s","i","t","e">>,
     <<"m","i","x","e","d"," ","m","a","t","e","r","i","a","l","s">>,
     <<"l","a","m","i","n","a","t","e","d">>,
     <<"f","o","a","m">> >>

renewable_keywords ==
  << <<"b","a","m","b","o","o">>,
     <<"h","e","m","p">>,
     <<"o","r","g","a","n","i","c"," ","c","o","t","t","o","n">>,
     <<"w","o","o","d">>,
     <<"c","o","r","k">>,
     <<"r","e","n","e","w","a","b","l","e">>,
     <<"b","i","o","-","b","a","s","e","d">> >>

packaging_excellent_words ==
  << <<"m","i","n","i","m","a","l"," ","p","a","c","k","a","g","i","n","g">>,
     <<"p","l","a","s","t","i","c","-","f","r","e","e">>,
     <<"z","e","r","o"," ","w","a","s","t","e">> >>

packaging_good_words ==
  << <<"r","e","c","y","c","l","a","b","l","e"," ","p","a","c","k","a","g","i","n","g">>,
     <<"c","a","r","d","b","o","a","r","d">> >>

packaging_poor_words ==
  << <<"e","x","c","e","s","s","i","v","e"," ","p","a","c","k","a","g","i","n","g">>,
     <<"p","l","a","s","t","i","c"," ","p","a","c","k","a","g","i","n","g">> >>

supply_excellent_words ==
  << <<"l","o","c","a","l">>,
     <<"f","a","i","r"," ","t","r","a","d","e">>,
     <<"e","t","h","i","c","a","l">>,
     <<"l","o","c","a","l"," ","s","o","u","r","c","e","d">> >>

supply_good_words ==
  << <<"c","e","r","t","i","f","i","e","d">>,
     <<"r","e","s","p","o","n","s","i","b","l","e">> >>

\* self.category_multipliers, in hundredths
category_multipliers ==
  [c \in {"electronics", "clothing", "food", "home", "beauty", "toys",
          "books", "automotive", "garden", "health"} |->
     CASE c = "electronics" -> 80
       [] c = "clothing"    -> 90
       [] c = "food"        -> 110
       [] c = "home"        -> 100
       [] c = "beauty"      -> 95
       [] c = "toys"        -> 85
       [] c = "books"       -> 105
       [] c = "automotive"  -> 70
       [] c = "garden"      -> 120
       [] c = "health"      -> 100]

\* the keys of self.category_multipliers in insertion order
category_order ==
  <<"electronics", "clothing", "food", "home", "beauty", "toys",
    "books", "automotive", "garden", "health">>

\* get_supported_categories: list(self.category_multipliers.keys())
get_supported_categories == category_order

\* self.stats as __init__ builds it
initial_stats ==
  [total_predictions  |-> 0,
   grade_distribution |-> [g \in Grades |-> 0],
   categories_processed |-> {}]

----------------------------------------------------------------------------
(* Category detection *)

\* a _detect_category whose loop does not return at the first match: the last
\* category with a keyword in title_lower wins
detect_category_value_last(title_lower) ==
  IF \E c \in 1..Len(category_keywords) :
       any_in(title_lower, category_keywords[c].keywords)
    THEN category_keywords[
           CHOOSE c \in 1..Len(category_keywords) :
             /\ any_in(title_lower, category_keywords[c].keywords)
             /\ \A d \in (c + 1)..Len(category_keywords) :
                  ~any_in(title_lower, category_keywords[d].keywords)].category
    ELSE "other"


\* the value _detect_category returns: the first category, in declaration
\* order, one of whose keywords occurs in title_lower; "other" if none does
detect_category_value(title_lower) ==
  IF \E c \in 1..Len(category_keywords) :
       any_in(title_lower, category_keywords[c].keywords)
    THEN category_keywords[
           CHOOSE c \in 1..Len(category_keywords) :
             /\ any_in(title_lower, category_keywords[c].keywords)
             /\ \A d \in 1..(c - 1) :
                  ~any_in(title_lower, category_keywords[d].keywords)].category
    ELSE "other"

\* a _detect_category that records "other" as well
detect_category_stats_with_other(st, category) ==
  [st EXCEPT !.categories_processed = @ \cup {category}]

\* _detect_category's effect on self.stats, given the category it returns:
\* a matched category is added to categories_processed, "other" is not
detect_category_stats(st, category) ==
  IF category = "other"
    THEN st
    ELSE [st EXCEPT !.categories_processed = @ \cup {category}]

----------------------------------------------------------------------------
(* Rule-based grading *)

\* an if/elif chain in which a hit of the average tier costs 5
tier_delta_average_penalty(category) ==
  CASE category = "excellent" -> 20
    [] category = "good"      -> 10
    [] category = "average"   -> -5
    [] category = "poor"      -> -10
    [] category = "very_poor" -> -20
    [] OTHER                  -> 0


\* the if/elif chain of _score_with_rules: what one hit of a tier adds
tier_delta(category) ==
  CASE category = "excellent" -> 20
    [] category = "good"      -> 10
    [] category = "average"   -> 0
    [] category = "poor"      -> -10
    [] category = "very_poor" -> -20
    [] OTHER                  -> 0

RECURSIVE occurrences(_, _)
\* s.count(sub): the number of non-overlapping occurrences of sub in s
occurrences(s, sub) ==
  IF Len(s) < Len(sub) \/ Len(sub) = 0 THEN 0
  ELSE IF SubSeq(s, 1, Len(sub)) = sub
    THEN 1 + occurrences(SubSeq(s, Len(sub) + 1, Len(s)), sub)
    ELSE occurrences(SubSeq(s, 2, Len(s)), sub)

RECURSIVE keyword_occurrences(_, _, _)
\* the occurrences in title_lower of the first n entries of a keyword list
keyword_occurrences(title_lower, keywords, n) ==
  IF n = 0 THEN 0
  ELSE keyword_occurrences(title_lower, keywords, n - 1)
       + occurrences(title_lower, keywords[n])

\* a keyword loop that adds the tier's delta once per occurrence
keyword_hits_per_occurrence(title_lower, keywords) ==
  keyword_occurrences(title_lower, keywords, Len(keywords))

\* the number of entries of a keyword list that occur in title_lower
keyword_hits(title_lower, keywords) ==
  Cardinality({k \in 1..Len(keywords) : str_contains(title_lower, keywords[k])})

RECURSIVE keyword_score(_, _)
\* the sum the double loop of _score_with_rules adds, over the first n tiers
keyword_score(title_lower, n) ==
  IF n = 0
    THEN 0
    ELSE keyword_score(title_lower, n - 1)
         + tier_delta(sustainability_keywords[n].category)
           * keyword_hits(title_lower, sustainability_keywords[n].keywords)

\* the score of _score_with_rules after the category multiplier, in
\* hundredths.  The keyword sum is a multiple of 10 and the multipliers
\* have two decimals; on every such product the binary double the code
\* computes falls on the same side of each grade bound as the exact value.
rule_score(title_lower) ==
  LET score    == 50 + keyword_score(title_lower, Len(sustainability_keywords))
      category == detect_category_value(title_lower)
  IN  IF category \in DOMAIN category_multipliers
        THEN score * category_multipliers[category]
        ELSE score * 100

\* a final if/elif chain with exclusive bounds
score_to_grade_exclusive(score) ==
  IF score > 8000 THEN "A"
  ELSE IF score > 6500 THEN "B"
  ELSE IF score > 4500 THEN "C"
  ELSE IF score > 3000 THEN "D"
  ELSE "E"

\* the final if/elif chain of _score_with_rules, on a score in hundredths
score_to_grade(score) ==
  IF score >= 8000 THEN "A"
  ELSE IF score >= 6500 THEN "B"
  ELSE IF score >= 4500 THEN "C"
  ELSE IF score >= 3000 THEN "D"
  ELSE "E"

\* a _score_with_rules that matches the keywords on the title as
\* prepare_features leaves it (lower-cased, special characters removed)
score_with_rules_value_normalized(product_title) ==
  LET title_lower == lower(product_title)
  IN  IF title_lower.exc
        THEN Raise
        ELSE Ok(score_to_grade(rule_score(re_sub_special(title_lower.val))))


\* the grade _score_with_rules returns, or its AttributeError on a non-str
score_with_rules_value(product_title) ==
  LET title_lower == lower(product_title)
  IN  IF title_lower.exc
        THEN Raise
        ELSE Ok(score_to_grade(rule_score(title_lower.val)))

----------------------------------------------------------------------------
(* Signal enrichment *)

\* base_impact of _estimate_co2_impact, in tenths of a kg
base_impact ==
  [g \in Grades |->
     CASE g = "A" -> 12 [] g = "B" -> 25 [] g = "C" -> 48
       [] g = "D" -> 81 [] g = "E" -> 125]

\* category_multipliers of _estimate_co2_impact, in tenths
co2_multipliers ==
  [c \in {"electronics", "automotive", "clothing", "food", "home", "beauty",
          "toys", "books", "garden", "health"} |->
     CASE c = "electronics" -> 30
       [] c = "automotive"  -> 50
       [] c = "clothing"    -> 15
       [] c = "food"        -> 8
       [] c = "home"        -> 20
       [] c = "beauty"      -> 12
       [] c = "toys"        -> 18
       [] c = "books"       -> 5
       [] c = "garden"      -> 9
       [] c = "health"      -> 11]

Digits == <<"0","1","2","3","4","5","6","7","8","9">>

RECURSIVE int_to_str(_)
\* str(n) for n >= 0
int_to_str(n) ==
  IF n < 10 THEN <<Digits[n + 1]>>
  ELSE int_to_str(n \div 10) \o <<Digits[(n % 10) + 1]>>

\* f"{impact:.1f}" for the double base * multiplier, both given in tenths.
\* The exact product h (in hundredths) rounds to the nearest tenth; where
\* h ends in 5 the double decides: the products the code can form are
\* exact doubles there (ties go to the even tenth) except 8.1 * 1.5, which
\* is the double 12.149999999999999 and rounds down.
format_1f(base, mult) ==
  LET h      == base * mult
      t      == h \div 10
      r      == h % 10
      tenths == IF r > 5 THEN t + 1
                ELSE IF r < 5 THEN t
                ELSE IF base = 81 /\ mult = 15 THEN t
                ELSE IF t % 2 = 1 THEN t + 1 ELSE t
  IN  int_to_str(tenths \div 10) \o <<".">> \o int_to_str(tenths % 10)

\* the unit the code appends: " kg CO" and the three characters the source
\* file holds after it
co2_suffix == <<" ","k","g"," ","C","O","U+00E2","U+201A","U+201A">>

\* _estimate_co2_impact: the text returned (KeyError on a grade without a
\* base impact, AttributeError on a non-str title)
estimate_co2_impact(product_title, grade) ==
  LET title_lower == lower(product_title)
  IN  IF title_lower.exc THEN Raise
      ELSE IF grade \notin DOMAIN base_impact THEN Raise
      ELSE LET category == detect_category_value(title_lower.val)
               mult     == IF category \in DOMAIN co2_multipliers
                             THEN co2_multipliers[category] ELSE 10
           IN  Ok(format_1f(base_impact[grade], mult) \o co2_suffix)

recyclable_categories == {"electronics", "books", "home"}

\* an _assess_recyclability that tests the non-recyclable keywords first
assess_recyclability_non_first(product_title) ==
  LET title_lower == lower(product_title)
  IN  IF title_lower.exc THEN Raise
      ELSE IF any_in(title_lower.val, non_recyclable_keywords) THEN Ok(FALSE)
      ELSE IF any_in(title_lower.val, recyclable_keywords) THEN Ok(TRUE)
      ELSE Ok(detect_category_value(title_lower.val) \in recyclable_categories)


\* _assess_recyclability
assess_recyclability(product_title) ==
  LET title_lower == lower(product_title)
  IN  IF title_lower.exc THEN Raise
      ELSE IF any_in(title_lower.val, recyclable_keywords) THEN Ok(TRUE)
      ELSE IF any_in(title_lower.val, non_recyclable_keywords) THEN Ok(FALSE)
      ELSE Ok(detect_category_value(title_lower.val) \in recyclable_categories)

\* _assess_renewable_materials
assess_renewable_materials(product_title) ==
  LET title_lower == lower(product_title)
  IN  IF title_lower.exc THEN Raise
      ELSE Ok(any_in(title_lower.val, renewable_keywords))

\* _assess_packaging
assess_packaging(product_title) ==
  LET title_lower == lower(product_title)
  IN  IF title_lower.exc THEN Raise
      ELSE IF any_in(title_lower.val, packaging_excellent_words) THEN Ok("Excellent")
      ELSE IF any_in(title_lower.val, packaging_good_words) THEN Ok("Good")
      ELSE IF any_in(title_lower.val, packaging_poor_words) THEN Ok("Poor")
      ELSE Ok("Average")

\* an _assess_supply_chain that ends in the default of the packaging scale
assess_supply_chain_average(product_title) ==
  LET title_lower == lower(product_title)
  IN  IF title_lower.exc THEN Raise
      ELSE IF any_in(title_lower.val, supply_excellent_words) THEN Ok("Excellent")
      ELSE IF any_in(title_lower.val, supply_good_words) THEN Ok("Good")
      ELSE Ok("Average")

\* _assess_supply_chain
assess_supply_chain(product_title) ==
  LET title_lower == lower(product_title)
  IN  IF title_lower.exc THEN Raise
      ELSE IF any_in(title_lower.val, supply_excellent_words) THEN Ok("Excellent")
      ELSE IF any_in(title_lower.val, supply_good_words) THEN Ok("Good")
      ELSE Ok("Unknown")

\* messages of _generate_green_message
messages ==
  [g \in Grades |->
     CASE g = "A" ->
            <<"Excellent choice! This product supports sustainable practices.",
              "Great pick! This item has minimal environmental impact.",
              "Perfect! This product promotes a circular economy.">>
       [] g = "B" ->
            <<"Good choice! This product is more sustainable than average.",
              "Nice pick! Consider reusing or recycling when done.",
              "Well done! This item has better environmental credentials.">>
       [] g = "C" ->
            <<"Average sustainability. Look for eco-friendly alternatives.",
              "Consider checking for more sustainable options.",
              "This product meets basic environmental standards.">>
       [] g = "D" ->
            <<"Below average sustainability. Consider alternatives.",
              "Look for products with better environmental ratings.",
              "This item could have significant environmental impact.">>
       [] g = "E" ->
            <<"Poor sustainability rating. Strongly consider alternatives.",
              "This product may have high environmental impact.",
              "Look for eco-friendly alternatives to reduce your footprint.">>]

\* the positions random.choice may draw from a pool of three messages
Picks == 1..3

\* _generate_green_message, with random.choice drawing position pick
generate_green_message(product_title, grade, pick) ==
  LET title_lower == lower(product_title)
  IN  IF title_lower.exc THEN Raise
      ELSE Ok((IF grade \in DOMAIN messages THEN messages[grade] ELSE messages["C"])[pick])

RECURSIVE keyword_hits_all(_, _)
\* matching_keywords of _calculate_confidence, over the first n tiers
keyword_hits_all(title_lower, n) ==
  IF n = 0
    THEN 0
    ELSE keyword_hits_all(title_lower, n - 1)
         + keyword_hits(title_lower, sustainability_keywords[n].keywords)

\* a _calculate_confidence without the final min(confidence, 0.95)
calculate_confidence_uncapped(product_title) ==
  LET title_lower == lower(product_title)
  IN  IF title_lower.exc THEN Raise
      ELSE LET matching_keywords ==
                 keyword_hits_all(title_lower.val, Len(sustainability_keywords))
               keyword_confidence ==
                 IF matching_keywords * 20 < 40 THEN matching_keywords * 20 ELSE 40
           IN  Ok(50 + keyword_confidence
                     + (IF split_len(product_title.chars) >= 4 THEN 10 ELSE 0))

\* a _calculate_confidence that takes three words for a detailed title
calculate_confidence_three_words(product_title) ==
  LET title_lower == lower(product_title)
  IN  IF title_lower.exc THEN Raise
      ELSE LET matching_keywords ==
                 keyword_hits_all(title_lower.val, Len(sustainability_keywords))
               keyword_confidence ==
                 IF matching_keywords * 20 < 40 THEN matching_keywords * 20 ELSE 40
               confidence ==
                 50 + keyword_confidence
                    + (IF split_len(product_title.chars) >= 3 THEN 10 ELSE 0)
           IN  Ok(IF confidence < 95 THEN confidence ELSE 95)


\* _calculate_confidence, in hundredths: 0.5, plus min(matching / 5, 0.4),
\* plus 0.1 for a title of four words or more, capped at 0.95
calculate_confidence(product_title) ==
  LET title_lower == lower(product_title)
  IN  IF title_lower.exc THEN Raise
      ELSE LET matching_keywords ==
                 keyword_hits_all(title_lower.val, Len(sustainability_keywords))
               keyword_confidence ==
                 IF matching_keywords * 20 < 40 THEN matching_keywords * 20 ELSE 40
               confidence ==
                 50 + keyword_confidence
                    + (IF split_len(product_title.chars) >= 4 THEN 10 ELSE 0)
           IN  Ok(IF confidence < 95 THEN confidence ELSE 95)

\* a default result that carries no grade letter
get_default_score_ungraded ==
  [grade               |-> "Unknown",
   co2_impact          |-> <<"U","n","k","n","o","w","n">>,
   recyclable          |-> FALSE,
   renewable_materials |-> FALSE,
   packaging_score     |-> "Unknown",
   supply_chain_score  |-> "Unknown",
   green_message       |-> "Unable to assess sustainability. Please try again.",
   confidence          |-> 10,
   timestamp           |-> "now"]

\* a default result that reports the middle of each scale
get_default_score_average ==
  [grade               |-> "C",
   co2_impact          |-> <<"U","n","k","n","o","w","n">>,
   recyclable          |-> FALSE,
   renewable_materials |-> FALSE,
   packaging_score     |-> "Average",
   supply_chain_score  |-> "Average",
   green_message       |-> "Unable to assess sustainability. Please try again.",
   confidence          |-> 50,
   timestamp           |-> "now"]

\* _get_default_score
get_default_score ==
  [grade               |-> "C",
   co2_impact          |-> <<"U","n","k","n","o","w","n">>,
   recyclable          |-> FALSE,
   renewable_materials |-> FALSE,
   packaging_score     |-> "Unknown",
   supply_chain_score  |-> "Unknown",
   green_message       |-> "Unable to assess sustainability. Please try again.",
   confidence          |-> 10,
   timestamp           |-> "now"]

----------------------------------------------------------------------------
(* The titles the model scores *)

\* the empty title
title_empty ==
  Str(<<>>)

\* create_synthetic_training_data, excellent_products[0]
\* "Organic Bamboo Toothbrush - Biodegradable and Sustainable"
title_bamboo ==
  Str(<<"O","r","g","a","n","i","c"," ","B","a","m","b","o","o"," ","T","o","o","t","h","b","r","u","s","h"," ","-"," ","B","i","o","d","e","g","r","a","d","a","b","l","e"," ","a","n","d"," ","S","u","s","t","a","i","n","a","b","l","e">>)

\* create_synthetic_training_data, very_poor_products[0]
\* "Toxic Paint Remover - Harmful Chemical Stripper"
title_toxic ==
  Str(<<"T","o","x","i","c"," ","P","a","i","n","t"," ","R","e","m","o","v","e","r"," ","-"," ","H","a","r","m","f","u","l"," ","C","h","e","m","i","c","a","l"," ","S","t","r","i","p","p","e","r">>)

\* a title in a non-Latin script, two words
\* (Cyrillic: E-k-o, space, Ch-a-i)
title_cyrillic ==
  Str(<<"U+042D","U+043A","U+043E"," ","U+0427","U+0430","U+0439">>)

\* the titles a score_product call of the model is given: str values and None
Titles ==
  {title_empty, title_bamboo, title_toxic, title_cyrillic, NoneValue}

\* a title of whitespace alone
\* "   "
title_spaces ==
  Str(<<" "," "," ">>)

\* a title with a hyphenated word, a run of two spaces, digits and a sign
\* "Organic Cotton T-Shirt  100% Recycled"
title_shirt ==
  Str(<<"O","r","g","a","n","i","c"," ","C","o","t","t","o","n"," ","T","-","S","h","i","r","t"," "," ","1","0","0","%"," ","R","e","c","y","c","l","e","d">>)

\* a title that holds the keyword plastic twice
\* "Disposable Plastic Cups - Plastic Packaging"
title_cups ==
  Str(<<"D","i","s","p","o","s","a","b","l","e"," ","P","l","a","s","t","i","c"," ","C","u","p","s"," ","-"," ","P","l","a","s","t","i","c"," ","P","a","c","k","a","g","i","n","g">>)

\* a title with keywords of two tiers
\* "Recyclable Steel Bottle - Fair Trade Certified"
title_steel ==
  Str(<<"R","e","c","y","c","l","a","b","l","e"," ","S","t","e","e","l"," ","B","o","t","t","l","e"," ","-"," ","F","a","i","r"," ","T","r","a","d","e"," ","C","e","r","t","i","f","i","e","d">>)

\* a title with a tab
\* "Natural Soap Bar\t- Zero Waste, Minimal Packaging"
title_soap ==
  Str(<<"N","a","t","u","r","a","l"," ","S","o","a","p"," ","B","a","r","\t","-"," ","Z","e","r","o"," ","W","a","s","t","e",","," ","M","i","n","i","m","a","l"," ","P","a","c","k","a","g","i","n","g">>)

\* a title without a lexicon keyword, of category home
\* "Cardboard Storage Box - Responsible Sourcing"
title_box ==
  Str(<<"C","a","r","d","b","o","a","r","d"," ","S","t","o","r","a","g","e"," ","B","o","x"," ","-"," ","R","e","s","p","o","n","s","i","b","l","e"," ","S","o","u","r","c","i","n","g">>)

\* a title of category electronics
\* "Cheap Phone Charger"
title_phone ==
  Str(<<"C","h","e","a","p"," ","P","h","o","n","e"," ","C","h","a","r","g","e","r">>)

\* create_synthetic_training_data, average_products[0]
\* "Standard Cotton T-Shirt - Regular Fit"
title_standard ==
  Str(<<"S","t","a","n","d","a","r","d"," ","C","o","t","t","o","n"," ","T","-","S","h","i","r","t"," ","-"," ","R","e","g","u","l","a","r"," ","F","i","t">>)

\* a title whose only lexicon keywords hold a hyphen
\* "Eco-Friendly Reusable Bag"
title_eco ==
  Str(<<"E","c","o","-","F","r","i","e","n","d","l","y"," ","R","e","u","s","a","b","l","e"," ","B","a","g">>)

\* a title with a recyclable and a non-recyclable keyword, of category books
\* "Laminated Cardboard Notebook"
title_notebook ==
  Str(<<"L","a","m","i","n","a","t","e","d"," ","C","a","r","d","b","o","a","r","d"," ","N","o","t","e","b","o","o","k">>)

\* a title with a non-recyclable keyword, of category home
\* "Memory Foam Pillow"
title_pillow ==
  Str(<<"M","e","m","o","r","y"," ","F","o","a","m"," ","P","i","l","l","o","w">>)

\* a title with an electronics keyword and a clothing keyword
\* "Laptop Jacket Sleeve"
title_laptop ==
  Str(<<"L","a","p","t","o","p"," ","J","a","c","k","e","t"," ","S","l","e","e","v","e">>)

\* a title with a beauty keyword and automotive keywords
\* "Engine Oil Filter"
title_oil ==
  Str(<<"E","n","g","i","n","e"," ","O","i","l"," ","F","i","l","t","e","r">>)


\* a title of five words with one lexicon keyword
\* "Cheap Phone Charger With Cable"
title_cable ==
  Str(<<"C","h","e","a","p"," ","P","h","o","n","e"," ","C","h","a","r","g","e","r"," ","W","i","t","h"," ","C","a","b","l","e">>)

\* a title with "recyclable packaging" and a non-recyclable keyword
\* "Foam Insert - Recyclable Packaging"
title_insert ==
  Str(<<"F","o","a","m"," ","I","n","s","e","r","t"," ","-"," ","R","e","c","y","c","l","a","b","l","e"," ","P","a","c","k","a","g","i","n","g">>)

\* the titles the methods are called with directly
PureTitles ==
  {title_empty, title_spaces, title_bamboo, title_toxic, title_cyrillic,
   title_shirt, title_cups, title_steel, title_soap, title_box, title_phone,
   title_standard, title_eco, title_notebook, title_pillow, title_laptop,
   title_oil, title_cable, title_insert, NoneValue}

\* every title of the model
AllTitles == Titles \cup PureTitles

\* the pure parts of the scoring methods, evaluated once for every title of
\* the model (the methods read nothing but the title, the grade and the
\* lexicon)
evaluated ==
  [t \in AllTitles |->
     [score_with_rules    |-> score_with_rules_value(t),
      score               |-> IF lower(t).exc THEN Raise
                              ELSE Ok(rule_score(lower(t).val)),
      category            |-> IF lower(t).exc THEN "other"
                              ELSE detect_category_value(lower(t).val),
      co2_impact          |-> [g \in Grades |-> estimate_co2_impact(t, g)],
      recyclable          |-> assess_recyclability(t),
      renewable_materials |-> assess_renewable_materials(t),
      packaging_score     |-> assess_packaging(t),
      supply_chain_score  |-> assess_supply_chain(t),
      confidence          |-> calculate_confidence(t)]]

----------------------------------------------------------------------------
(* The trained artifact, as score_product sees it *)

\* what the grades of the training data are decoded to, and one label a
\* loaded label decoder may hold that is no grade
Labels == Grades \cup {"F"}

InferenceSteps == {"vectorize", "predict", "decode"}

\* what one run of the try block of _score_with_model can do: raise in one
\* of its three steps, or decode a label
Inferences ==
  {[raises |-> TRUE, at |-> s, label |-> "none"] : s \in InferenceSteps}
  \cup {[raises |-> FALSE, at |-> "none", label |-> l] : l \in Labels}

NoInference == [raises |-> FALSE, at |-> "none", label |-> "none"]

----------------------------------------------------------------------------
(* score_product *)

\* a _score_with_rules that reads the counters: from the second prediction
\* of the process on, every title gets the middle grade
score_with_rules_on_adaptive(st, e) ==
  IF e.score_with_rules.exc
    THEN [exc |-> TRUE, val |-> "none", stats |-> st, grader |-> "rules"]
    ELSE [exc |-> FALSE,
          val |-> IF st.total_predictions > 1
                    THEN "C" ELSE e.score_with_rules.val,
          stats |-> detect_category_stats(st, e.category), grader |-> "rules"]

\* _score_with_rules, given what it computes from the title (e): the grade,
\* and self.stats after its _detect_category
score_with_rules_on(st, e) ==
  IF e.score_with_rules.exc
    THEN [exc |-> TRUE, val |-> "none", stats |-> st, grader |-> "rules"]
    ELSE [exc |-> FALSE, val |-> e.score_with_rules.val,
          stats |-> detect_category_stats(st, e.category), grader |-> "rules"]

\* _score_with_rules
score_with_rules(st, product_title) ==
  score_with_rules_on(st, evaluated[product_title])

\* a _score_with_model whose except clause returns the middle grade instead
\* of calling _score_with_rules
score_with_model_on_middle_grade(st, e, inference) ==
  IF inference.raises
    THEN [exc |-> FALSE, val |-> "C", stats |-> st, grader |-> "model_fallback"]
    ELSE [exc |-> FALSE, val |-> inference.label, stats |-> st, grader |-> "model"]

\* _score_with_model, given what the rules compute from the title (e): the
\* decoded label, or on any exception of the inference what
\* _score_with_rules does
score_with_model_on(st, e, inference) ==
  IF inference.raises
    THEN [score_with_rules_on(st, e) EXCEPT !.grader = "model_fallback"]
    ELSE [exc |-> FALSE, val |-> inference.label, stats |-> st, grader |-> "model"]

\* _score_with_model
score_with_model(st, product_title, inference) ==
  score_with_model_on(st, evaluated[product_title], inference)

NoResult == [grade |-> "none"]

\* a line 276 that counts the call twice
count_prediction_twice(st) == [st EXCEPT !.total_predictions = @ + 2]

\* line 276 of score_product
count_prediction(st) == [st EXCEPT !.total_predictions = @ + 1]

\* a grader selection that never reaches the model
select_grader_rules_only(st, m, v, le, e, inference) ==
  score_with_rules_on(st, e)

\* lines 278-283 of score_product: the grader the artifact selects
select_grader(st, m, v, le, e, inference) ==
  IF Truthy(m) /\ Truthy(v) /\ Truthy(le)
    THEN score_with_model_on(st, e, inference)
    ELSE score_with_rules_on(st, e)

\* line 286 of score_product: KeyError on a grade that is no key
count_grade(st, grade) ==
  IF grade \notin DOMAIN st.grade_distribution
    THEN [exc |-> TRUE, stats |-> st]
    ELSE [exc |-> FALSE, stats |-> [st EXCEPT !.grade_distribution[grade] = @ + 1]]

\* lines 289-302 of score_product: the result record, built from the grade
\* and from what the enrichment methods compute from the title (e)
build_result(st, e, product_title, grade, pick, grader) ==
  LET co2 == IF grade \in DOMAIN e.co2_impact THEN e.co2_impact[grade] ELSE Raise
      msg == generate_green_message(product_title, grade, pick)
  IN  IF \/ co2.exc \/ e.recyclable.exc \/ e.renewable_materials.exc
         \/ e.packaging_score.exc \/ e.supply_chain_score.exc
         \/ msg.exc \/ e.confidence.exc
        THEN [exc |-> TRUE, result |-> NoResult, stats |-> st, grader |-> grader]
        ELSE [exc    |-> FALSE,
              result |-> [grade               |-> grade,
                          co2_impact          |-> co2.val,
                          recyclable          |-> e.recyclable.val,
                          renewable_materials |-> e.renewable_materials.val,
                          packaging_score     |-> e.packaging_score.val,
                          supply_chain_score  |-> e.supply_chain_score.val,
                          green_message       |-> msg.val,
                          confidence          |-> e.confidence.val,
                          timestamp           |-> "now"],
              stats  |-> detect_category_stats(st, e.category),
              grader |-> grader]

\* lines 285-302 of score_product, given the grader's outcome g
score_product_after_grade(g, e, product_title, pick) ==
  IF g.exc
    THEN [exc |-> TRUE, result |-> NoResult, stats |-> g.stats, grader |-> g.grader]
  ELSE IF count_grade(g.stats, g.val).exc
    THEN [exc |-> TRUE, result |-> NoResult, stats |-> g.stats, grader |-> g.grader]
  ELSE build_result(count_grade(g.stats, g.val).stats, e, product_title,
                    g.val, pick, g.grader)

\* the try block of score_product (lines 276-302), given what the pure
\* methods compute from the title (e): exc tells whether it raised, stats
\* is self.stats when it ended
score_product_try_on(st, m, v, le, product_title, e, inference, pick) ==
  score_product_after_grade(
    select_grader(count_prediction(st), m, v, le, e, inference),
    e, product_title, pick)

\* the try block of score_product
score_product_try(st, m, v, le, product_title, inference, pick) ==
  score_product_try_on(st, m, v, le, product_title, evaluated[product_title],
                       inference, pick)

\* an except clause that logs and re-raises
score_product_except_reraise(body) ==
  IF body.exc
    THEN [exc |-> TRUE, handled |-> TRUE, result |-> NoResult,
          stats |-> body.stats, grader |-> body.grader]
    ELSE [exc |-> FALSE, handled |-> FALSE, result |-> body.result,
          stats |-> body.stats, grader |-> body.grader]

\* the except clause of score_product (lines 304-306), given the outcome of
\* the try block: on any exception the default result
score_product_except(body) ==
  IF body.exc
    THEN [exc |-> FALSE, handled |-> TRUE, result |-> get_default_score,
          stats |-> body.stats, grader |-> body.grader]
    ELSE [exc |-> FALSE, handled |-> FALSE, result |-> body.result,
          stats |-> body.stats, grader |-> body.grader]

\* score_product: what it returns (result), whether it raised (exc), whether
\* the except clause ran (handled), which grader decided (grader), and
\* self.stats afterwards
score_product(st, m, v, le, product_title, inference, pick) ==
  score_product_except(
    score_product_try(st, m, v, le, product_title, inference, pick))

----------------------------------------------------------------------------
(* Startup: load_or_train_model *)

\* the three attributes that make up the trained artifact
Artifact(m, v, le) == [model |-> m, vectorizer |-> v, label_encoder |-> le]

\* a create_fallback_model that only logs
create_fallback_model_keeps(a) == a

\* a create_fallback_model that resets the model alone
create_fallback_model_model_only(a) == [a EXCEPT !.model = None]

\* create_fallback_model
create_fallback_model(a) ==
  [a EXCEPT !.model = None, !.vectorizer = None, !.label_encoder = None]

\* the pickle.load calls of load_model, in order
LoadSteps == <<"model", "vectorizer", "label_encoder">>

\* the statements of train_model that may raise, in order: reading the
\* training data, LabelEncoder.fit_transform, TfidfVectorizer.fit_transform,
\* train_test_split, RandomForestClassifier.fit, predict and accuracy_score
TrainSteps == <<"data", "encode", "vectorize", "split", "fit", "evaluate">>

\* the attribute assigned just before a step of train_model runs, if any
train_assigns(step) ==
  CASE step = "encode"    -> "label_encoder"
    [] step = "vectorize" -> "vectorizer"
    [] step = "fit"       -> "model"
    [] OTHER              -> "none"

\* self.<attribute> = <a fresh or unpickled object>
assign(a, attribute) ==
  IF attribute = "none" THEN a ELSE [a EXCEPT ![attribute] = "object"]

RECURSIVE load_from(_, _, _)
\* load_model from its n-th pickle.load on: every load assigns its
\* attribute; the one named by fails_at raises instead, and the except
\* clause calls create_fallback_model
load_from(a, n, fails_at) ==
  IF n > Len(LoadSteps)
    THEN [exc |-> FALSE, artifact |-> a, failed |-> FALSE]
  ELSE IF LoadSteps[n] = fails_at
    THEN [exc |-> FALSE, artifact |-> create_fallback_model(a), failed |-> TRUE]
  ELSE load_from(assign(a, LoadSteps[n]), n + 1, fails_at)

\* load_model
load_model(a, fails_at) == load_from(a, 1, fails_at)

RECURSIVE train_from(_, _, _)
\* train_model from its n-th step on; save_model, which ends it, catches
\* its own exceptions and assigns nothing
train_from(a, n, fails_at) ==
  IF n > Len(TrainSteps)
    THEN [exc |-> FALSE, artifact |-> a, failed |-> FALSE]
  ELSE IF TrainSteps[n] = fails_at
    THEN [exc |-> FALSE,
          artifact |-> create_fallback_model(assign(a, train_assigns(TrainSteps[n]))),
          failed |-> TRUE]
  ELSE train_from(assign(a, train_assigns(TrainSteps[n])), n + 1, fails_at)

\* train_model
train_model(a, fails_at) == train_from(a, 1, fails_at)

\* load_or_train_model: load when the three files exist, train otherwise;
\* its own except clause calls create_fallback_model
load_or_train_model(a, files_exist, fails_at) ==
  LET body == IF files_exist THEN load_model(a, fails_at)
              ELSE train_model(a, fails_at)
  IN  IF body.exc
        THEN [exc |-> FALSE, artifact |-> create_fallback_model(a), failed |-> TRUE]
        ELSE body

----------------------------------------------------------------------------
(* The engine, one call after another *)

\* call: the last score_product call (seq counts the calls so far): its
\* title, what the artifact did in it, whether load_or_train_model had run,
\* whether it raised, whether its except clause ran, the grader that
\* decided it and the one that decided the call before, and its result

\* the number of score_product calls a run of the model makes
MaxCalls == 2

\* the number of request threads that call score_product at the same time
NThreads == 2

Threads == 1..NThreads

\* the locals of a thread that is not in score_product
NoFrame ==
  [product_title |-> NoneValue, inference |-> NoInference, tmp |-> 0,
   grade |-> "none", grader |-> "none", handled |-> FALSE, result |-> NoResult]

\* no get_stats call has returned
NoSnapshot == [taken |-> FALSE]

\* no method has been called directly
NoProbe == [op |-> "none"]

NotStarted ==
  [done |-> FALSE, raised |-> FALSE, files_exist |-> FALSE,
   fails_at |-> "none", failed |-> FALSE]

NoCall ==
  [seq |-> 0, title |-> NoneValue, inference |-> NoInference, loaded |-> FALSE,
   raised |-> FALSE, handled |-> FALSE, grader |-> "none", previous |-> "none",
   result |-> NoResult]

\* the scorer as app.py constructs it, before any request
Init ==
  /\ model = None
  /\ vectorizer = None
  /\ label_encoder = None
  /\ stats = initial_stats
  /\ startup = NotStarted
  /\ call = NoCall
  /\ pc = [t \in Threads |-> "idle"]
  /\ frame = [t \in Threads |-> NoFrame]
  /\ snapshot = NoSnapshot
  /\ probe = NoProbe

\* the state after a load_or_train_model call that did r
Started(r, files_exist, fails_at) ==
  /\ model' = r.artifact.model
  /\ vectorizer' = r.artifact.vectorizer
  /\ label_encoder' = r.artifact.label_encoder
  /\ startup' = [done |-> TRUE, raised |-> r.exc, files_exist |-> files_exist,
                 fails_at |-> fails_at, failed |-> r.failed]

\* app.py's __main__ calls scorer.load_or_train_model() once, before it serves
LoadOrTrainModel ==
  /\ ~startup.done
  /\ \E files_exist \in BOOLEAN :
       \E fails_at \in {"none"} \cup
                       (IF files_exist THEN {LoadSteps[i] : i \in 1..Len(LoadSteps)}
                        ELSE {TrainSteps[i] : i \in 1..Len(TrainSteps)}) :
         Started(load_or_train_model(Artifact(model, vectorizer, label_encoder),
                                     files_exist, fails_at),
                 files_exist, fails_at)
  /\ UNCHANGED <<stats, call, pc, frame, snapshot, probe>>

\* a score_product whose model failure drops the artifact for good
ReturnedSticky(r, product_title, inference) ==
  /\ stats' = r.stats
  /\ call' = [seq |-> call.seq + 1, title |-> product_title,
              inference |-> inference, loaded |-> startup.done,
              raised |-> r.exc, handled |-> r.handled,
              grader |-> r.grader, previous |-> call.grader,
              result |-> r.result]
  /\ IF r.grader = "model_fallback"
       THEN model' = None /\ vectorizer' = None /\ label_encoder' = None
       ELSE UNCHANGED <<model, vectorizer, label_encoder>>

\* the state after a score_product call that did r: the statistics as the
\* call left them, the attributes of the artifact as they were (no line of
\* score_product, _score_with_model or _score_with_rules assigns them)
Returned(r, product_title, inference) ==
  /\ stats' = r.stats
  /\ call' = [seq |-> call.seq + 1, title |-> product_title,
              inference |-> inference, loaded |-> startup.done,
              raised |-> r.exc, handled |-> r.handled,
              grader |-> r.grader, previous |-> call.grader,
              result |-> r.result]
  /\ UNCHANGED <<model, vectorizer, label_encoder>>

\* one call of scorer.score_product(product_title)
ScoreProduct ==
  /\ call.seq < MaxCalls
  /\ \E product_title \in Titles, pick \in Picks :
       \E inference \in
            (IF Truthy(model) /\ Truthy(vectorizer) /\ Truthy(label_encoder)
               THEN Inferences ELSE {NoInference}) :
         Returned(score_product(stats, model, vectorizer, label_encoder,
                                product_title, inference, pick),
                  product_title, inference)
  /\ UNCHANGED <<startup, pc, frame, snapshot, probe>>

Next == LoadOrTrainModel \/ ScoreProduct

Spec == Init /\ [][Next]_vars

----------------------------------------------------------------------------
(* The engine under concurrent requests.  app.py holds one scorer at       *)
(* module level and Flask's server runs each request in a thread of its    *)
(* own, so several score_product calls run at once on the same self.stats. *)
(* score_product takes no lock.  `d[k] += 1` is a read of d[k], an         *)
(* addition and a write of d[k]: another thread may run between the read   *)
(* and the write.  set.add and the pure methods are single steps.          *)

\* the titles the concurrent requests carry: str titles, so that no call
\* ends in the except clause and every call is counted
ConcTitles == {title_bamboo, title_toxic}

\* what the artifact does in a concurrent request: raise, or decode B
ConcInferences ==
  {i \in Inferences : (i.raises /\ i.at = "predict") \/ i.label = "B"}

\* a thread enters score_product(product_title): line 273
Enter(t) ==
  /\ startup.done
  /\ pc[t] = "idle"
  /\ \E product_title \in ConcTitles :
       \E inference \in
            (IF Truthy(model) /\ Truthy(vectorizer) /\ Truthy(label_encoder)
               THEN ConcInferences ELSE {NoInference}) :
         frame' = [frame EXCEPT ![t] = [NoFrame EXCEPT
                                          !.product_title = product_title,
                                          !.inference = inference]]
  /\ pc' = [pc EXCEPT ![t] = "read_total"]
  /\ UNCHANGED <<model, vectorizer, label_encoder, stats, startup, call, snapshot, probe>>

\* line 276, the read of self.stats['total_predictions']
ReadTotal(t) ==
  /\ pc[t] = "read_total"
  /\ frame' = [frame EXCEPT ![t].tmp = stats.total_predictions]
  /\ pc' = [pc EXCEPT ![t] = "write_total"]
  /\ UNCHANGED <<model, vectorizer, label_encoder, stats, startup, call, snapshot, probe>>

\* line 276, the write of self.stats['total_predictions']
WriteTotal(t) ==
  /\ pc[t] = "write_total"
  /\ stats' = [stats EXCEPT !.total_predictions = frame[t].tmp + 1]
  /\ pc' = [pc EXCEPT ![t] = "grade"]
  /\ UNCHANGED <<model, vectorizer, label_encoder, startup, call, frame, snapshot, probe>>

\* the thread's state after the grader returned g or raised
Graded(t, g) ==
  /\ stats' = g.stats
  /\ IF g.exc
       THEN /\ frame' = [frame EXCEPT ![t].grader = g.grader,
                                      ![t].handled = TRUE,
                                      ![t].result = get_default_score]
            /\ pc' = [pc EXCEPT ![t] = "done"]
       ELSE /\ frame' = [frame EXCEPT ![t].grader = g.grader,
                                      ![t].grade = g.val]
            /\ pc' = [pc EXCEPT ![t] = "read_count"]

\* lines 278-283: the grader
Grade(t) ==
  /\ pc[t] = "grade"
  /\ Graded(t, select_grader(stats, model, vectorizer, label_encoder,
                             evaluated[frame[t].product_title],
                             frame[t].inference))
  /\ UNCHANGED <<model, vectorizer, label_encoder, startup, call, snapshot, probe>>

\* line 286, the read of self.stats['grade_distribution'][grade]: KeyError
\* on a grade that is no key
ReadCount(t) ==
  /\ pc[t] = "read_count"
  /\ IF frame[t].grade \in DOMAIN stats.grade_distribution
       THEN /\ frame' = [frame EXCEPT
                           ![t].tmp = stats.grade_distribution[frame[t].grade]]
            /\ pc' = [pc EXCEPT ![t] = "write_count"]
       ELSE /\ frame' = [frame EXCEPT ![t].handled = TRUE,
                                      ![t].result = get_default_score]
            /\ pc' = [pc EXCEPT ![t] = "done"]
  /\ UNCHANGED <<model, vectorizer, label_encoder, stats, startup, call, snapshot, probe>>

\* line 286, the write of self.stats['grade_distribution'][grade]
WriteCount(t) ==
  /\ pc[t] = "write_count"
  /\ stats' = [stats EXCEPT !.grade_distribution[frame[t].grade] = frame[t].tmp + 1]
  /\ pc' = [pc EXCEPT ![t] = "result"]
  /\ UNCHANGED <<model, vectorizer, label_encoder, startup, call, frame, snapshot, probe>>

\* the thread's state after lines 289-302 built b or raised
Built(t, b) ==
  /\ stats' = b.stats
  /\ frame' = [frame EXCEPT
                 ![t].handled = b.exc,
                 ![t].result = IF b.exc THEN get_default_score ELSE b.result]
  /\ pc' = [pc EXCEPT ![t] = "done"]

\* lines 289-302: the result record, and the return
BuildResult(t) ==
  /\ pc[t] = "result"
  /\ \E pick \in Picks :
       Built(t, build_result(stats, evaluated[frame[t].product_title],
                             frame[t].product_title, frame[t].grade, pick,
                             frame[t].grader))
  /\ UNCHANGED <<model, vectorizer, label_encoder, startup, call, snapshot, probe>>

NextConc ==
  \/ LoadOrTrainModel
  \/ \E t \in Threads :
       \/ Enter(t)
       \/ ReadTotal(t)
       \/ WriteTotal(t)
       \/ Grade(t)
       \/ ReadCount(t)
       \/ WriteCount(t)
       \/ BuildResult(t)

SpecConc == Init /\ [][NextConc]_vars

----------------------------------------------------------------------------
(* The methods called directly, one call on one argument.  The argument is *)
(* drawn when the scorer is constructed; each method is applied to it.     *)

\* the largest score the grade bounds are applied to, in half points
MaxHalfPoints == 400

\* the scores the final if/elif chain is applied to, in hundredths: every
\* multiple of 0.5 from -MaxHalfPoints/2 to MaxHalfPoints/2
ScoreValues == {50 * h : h \in (0 - MaxHalfPoints)..MaxHalfPoints}

\* the arguments of the direct calls: a title, or a score
ProbeInputs ==
  {[op |-> "title", title |-> t, score |-> 0, out |-> None, again |-> None] :
     t \in PureTitles}
  \cup {[op |-> "score", title |-> NoneValue, score |-> x, out |-> None,
         again |-> None] : x \in ScoreValues}

InitPure ==
  /\ model = None
  /\ vectorizer = None
  /\ label_encoder = None
  /\ stats = initial_stats
  /\ startup = NotStarted
  /\ call = NoCall
  /\ pc = [t \in Threads |-> "idle"]
  /\ frame = [t \in Threads |-> NoFrame]
  /\ snapshot = NoSnapshot
  /\ probe \in ProbeInputs

\* prepare_features([title])[0]
PrepareFeatures ==
  /\ probe.op = "title"
  /\ probe' = [probe EXCEPT !.op = "prepare_features",
                            !.out = prepare_features(<<probe.title>>)[1]]
  /\ UNCHANGED <<model, vectorizer, label_encoder, stats, startup, call, pc,
                 frame, snapshot>>

\* prepare_features applied to what prepare_features returned
PrepareFeaturesAgain ==
  /\ probe.op = "prepare_features"
  /\ probe' = [probe EXCEPT !.op = "prepare_features_again",
                            !.again = prepare_features(<<probe.out>>)[1]]
  /\ UNCHANGED <<model, vectorizer, label_encoder, stats, startup, call, pc,
                 frame, snapshot>>

\* the state after _score_with_rules(title) did r, its score being score
RulesReturned(r, score) ==
  /\ stats' = r.stats
  /\ probe' = [probe EXCEPT !.op = "score_with_rules",
                            !.out = [exc |-> r.exc, grade |-> r.val,
                                     score |-> score]]

\* _score_with_rules(title)
ScoreWithRules ==
  /\ probe.op = "title"
  /\ RulesReturned(score_with_rules(stats, probe.title),
                   evaluated[probe.title].score)
  /\ UNCHANGED <<model, vectorizer, label_encoder, startup, call, pc, frame,
                 snapshot>>

\* _detect_category(title.lower()): the value returned, and the category
\* added to the categories-seen set
DetectCategory ==
  /\ probe.op = "title"
  /\ probe.title.type = "str"
  /\ stats' = detect_category_stats(stats, evaluated[probe.title].category)
  /\ probe' = [probe EXCEPT !.op = "detect_category",
                            !.out = evaluated[probe.title].category]
  /\ UNCHANGED <<model, vectorizer, label_encoder, startup, call, pc, frame,
                 snapshot>>

\* the final if/elif chain of _score_with_rules on a score
GradeOfScore ==
  /\ probe.op = "score"
  /\ probe' = [probe EXCEPT !.op = "score_to_grade",
                            !.out = score_to_grade(probe.score)]
  /\ UNCHANGED <<model, vectorizer, label_encoder, stats, startup, call, pc,
                 frame, snapshot>>

\* score_product(title) on the scorer as constructed (no artifact)
ScoreTitle ==
  /\ probe.op = "title"
  /\ \E pick \in Picks :
       Returned(score_product(stats, model, vectorizer, label_encoder,
                              probe.title, NoInference, pick),
                probe.title, NoInference)
  /\ probe' = [probe EXCEPT !.op = "score_product"]
  /\ UNCHANGED <<startup, pc, frame, snapshot>>

NextPure ==
  \/ PrepareFeatures
  \/ PrepareFeaturesAgain
  \/ ScoreWithRules
  \/ DetectCategory
  \/ GradeOfScore
  \/ ScoreTitle

SpecPure == InitPure /\ [][NextPure]_vars


----------------------------------------------------------------------------
(* get_stats and its caller.  The returned dict holds an int and two       *)
(* containers; a container is either a new object that get_stats built     *)
(* from the engine's (dict(...), list(...)) or the engine's own object.    *)
(* What the caller writes into a container it holds changes that object.   *)

\* a new container with the items of the engine's
NewObject(items) == [object |-> "new", items |-> items]

\* the engine's own container, handed out
SameObject(items) == [object |-> "self.stats", items |-> items]

\* a get_stats that hands out the engine's containers (no dict(), no list())
get_stats_shared(st, m) ==
  [exc |-> FALSE,
   val |-> [total_predictions    |-> st.total_predictions,
            grade_distribution   |-> SameObject(st.grade_distribution),
            categories_processed |-> SameObject(st.categories_processed),
            model_type           |-> IF Truthy(m) THEN "ML" ELSE "Rule-based",
            last_updated         |-> "now"],
   stats |-> st]

\* get_stats: the dict returned, and self.stats afterwards
get_stats(st, m) ==
  [exc |-> FALSE,
   val |-> [total_predictions    |-> st.total_predictions,
            grade_distribution   |-> NewObject(st.grade_distribution),
            categories_processed |-> NewObject(st.categories_processed),
            model_type           |-> IF Truthy(m) THEN "ML" ELSE "Rule-based",
            last_updated         |-> "now"],
   stats |-> st]

\* the titles scored between get_stats calls: one graded A in category
\* food, one graded E in no category, one graded D in category electronics
StatsTitles == {title_bamboo, title_toxic, title_phone}

\* one call of scorer.score_product(product_title), on one of StatsTitles
ScoreProductCounted ==
  /\ call.seq < MaxCalls
  /\ \E product_title \in StatsTitles :
       \E inference \in
            (IF Truthy(model) /\ Truthy(vectorizer) /\ Truthy(label_encoder)
               THEN ConcInferences ELSE {NoInference}) :
         Returned(score_product(stats, model, vectorizer, label_encoder,
                                product_title, inference, 1),
                  product_title, inference)
  /\ UNCHANGED <<startup, pc, frame, snapshot, probe>>

\* the state after a get_stats call that did r
StatsReturned(r) ==
  /\ stats' = r.stats
  /\ snapshot' = [taken |-> TRUE, by |-> "get_stats", val |-> r.val]

\* get_api_stats calls scorer.get_stats()
GetStats ==
  /\ StatsReturned(get_stats(stats, model))
  /\ UNCHANGED <<model, vectorizer, label_encoder, startup, call, pc, frame,
                 probe>>

\* the caller assigns returned['grade_distribution'][grade] = 0
CallerClearsGrade ==
  /\ snapshot.taken
  /\ snapshot.by = "get_stats"
  /\ \E grade \in Grades :
       /\ snapshot' = [snapshot EXCEPT !.by = "caller",
                                       !.val.grade_distribution.items[grade] = 0]
       /\ stats' = IF snapshot.val.grade_distribution.object = "self.stats"
                     THEN [stats EXCEPT !.grade_distribution[grade] = 0]
                     ELSE stats
  /\ UNCHANGED <<model, vectorizer, label_encoder, startup, call, pc, frame,
                 probe>>

\* the caller does returned['categories_processed'].clear()
CallerClearsCategories ==
  /\ snapshot.taken
  /\ snapshot.by = "get_stats"
  /\ snapshot' = [snapshot EXCEPT !.by = "caller",
                                  !.val.categories_processed.items = {}]
  /\ stats' = IF snapshot.val.categories_processed.object = "self.stats"
                THEN [stats EXCEPT !.categories_processed = {}]
                ELSE stats
  /\ UNCHANGED <<model, vectorizer, label_encoder, startup, call, pc, frame,
                 probe>>

NextStats ==
  \/ LoadOrTrainModel
  \/ ScoreProductCounted
  \/ GetStats
  \/ CallerClearsGrade
  \/ CallerClearsCategories

SpecStats == Init /\ [][NextStats]_vars


----------------------------------------------------------------------------
(* Properties of score_product and of load_or_train_model, one call after  *)
(* another (Spec)                                                          *)

\* the nine fields of a result record
ResultFields ==
  {"grade", "co2_impact", "recyclable", "renewable_materials",
   "packaging_score", "supply_chain_score", "green_message", "confidence",
   "timestamp"}

\* whether the artifact was loaded when the last call ran
ModelMode(c) == c.grader \in {"model", "model_fallback"}

\* C1: score_product never raises: whatever the title (empty, non-Latin, a
\* non-str value) and the grader mode, the call returns a record with the
\* nine result fields.
C1_NeverRaises ==
  call.seq > 0 => (~call.raised /\ DOMAIN call.result = ResultFields)

\* C1 witness: a call given None returned, and so did a call given the
\* Cyrillic title while the model was loaded
C1_Witness ==
  /\ call.seq > 0
  /\ ~call.raised
  /\ \/ call.title = NoneValue
     \/ (call.title = title_cyrillic /\ ModelMode(call))

\* C2: the grade of every returned result is one of A, B, C, D, E: by
\* rules, by the model (also when the decoder yields another label), by
\* the fallback after a model failure, and in the default result.
C2_GradeIsValid ==
  call.seq > 0 => (~call.raised /\ call.result.grade \in Grades)

\* C2 witness: the model decoded the label F and the call returned
C2_Witness ==
  /\ call.seq > 0
  /\ call.grader = "model"
  /\ call.inference.label \notin Grades
  /\ ~call.raised

\* C3: the confidence of every returned result lies in [0.05, 0.95]
\* (hundredths: 5..95), the empty title and the default result included.
C3_ConfidenceInRange ==
  call.seq > 0 =>
    (~call.raised /\ call.result.confidence >= 5 /\ call.result.confidence <= 95)

\* C3 witness: the empty title was scored without an error, and its
\* confidence is the base 0.5
C3_Witness ==
  /\ call.seq > 0
  /\ call.title = title_empty
  /\ ~call.handled
  /\ ~call.raised
  /\ call.result.confidence = 50

\* a step of the last call raised: the rule grader or the enrichment on a
\* non-str title, or the statistics update on a label that is no grade
StepRaised(c) ==
  \/ c.title.type # "str"
  \/ (c.grader = "model" /\ c.inference.label \notin Grades)

\* C4: when a step of score_product raises, the call returns the fixed
\* default result: grade C, co2_impact "Unknown", recyclable false,
\* renewable_materials false, packaging_score and supply_chain_score
\* "Unknown", the apology message, confidence 0.1; and the except clause
\* runs in no other case.
C4_DefaultOnError ==
  call.seq > 0 =>
    /\ ~call.raised
    /\ call.handled = StepRaised(call)
    /\ call.handled =>
         /\ call.result.grade = "C"
         /\ call.result.co2_impact = <<"U","n","k","n","o","w","n">>
         /\ call.result.recyclable = FALSE
         /\ call.result.renewable_materials = FALSE
         /\ call.result.packaging_score = "Unknown"
         /\ call.result.supply_chain_score = "Unknown"
         /\ call.result.green_message
              = "Unable to assess sustainability. Please try again."
         /\ call.result.confidence = 10

\* C4 witness: the statistics update raised on the label F, after the
\* model graded a str title
C4_Witness ==
  /\ call.seq > 0
  /\ call.handled
  /\ call.title.type = "str"
  /\ call.grader = "model"

\* what C5 promises of a call whose model inference raised
FellBackToRules(c) ==
  /\ ~c.raised
  /\ ~c.handled
  /\ DOMAIN c.result = ResultFields
  /\ c.result.grade = evaluated[c.title].score_with_rules.val

\* C5 as stated: in model mode, whenever the inference raises, the call
\* returns a full, non-default result with the rule-based grade of the
\* title.  (Fails for a non-str title: the rule grader raises on it too.)
C5_Original ==
  (call.seq > 0 /\ call.inference.raises) => FellBackToRules(call)

\* C5 amended: the same, for every str title.
C5_FallbackOnStr ==
  (call.seq > 0 /\ call.inference.raises /\ call.title.type = "str")
    => FellBackToRules(call)

\* C5 witness: the vectorizer raised on the bamboo title and the call
\* returned grade A
C5_Witness ==
  /\ call.seq > 0
  /\ call.inference.raises
  /\ call.inference.at = "vectorize"
  /\ call.title = title_bamboo
  /\ ~call.handled
  /\ call.result.grade = "A"

\* C6: no score_product call changes the held model, vectorizer or label
\* decoder, so the call after one that ran in model mode (whether its
\* inference failed or it ended in the default result) runs in model mode.
C6_FallbackNotSticky ==
  [][call'.seq = call.seq + 1 =>
       /\ model' = model
       /\ vectorizer' = vectorizer
       /\ label_encoder' = label_encoder
       /\ ModelMode(call) => ModelMode(call')]_vars

\* C6 witness: a call decided by the model right after a call that fell
\* back to the rules
C6_Witness ==
  /\ call.seq > 1
  /\ call.previous = "model_fallback"
  /\ call.grader = "model"
  /\ ~call.handled

\* no attribute of the artifact is held
NoArtifact == model = None /\ vectorizer = None /\ label_encoder = None

\* C7 as stated: load_or_train_model never raises, and whenever loading
\* fails or no saved artifact exists the engine holds no model afterwards
\* and every call is graded by the rules.  (Fails: without saved files the
\* code trains a new model and keeps it.)
C7_Original ==
  startup.done =>
    /\ ~startup.raised
    /\ (startup.failed \/ ~startup.files_exist) =>
         /\ model = None
         /\ (call.seq > 0 /\ call.loaded) => call.grader = "rules"

\* C7 amended: load_or_train_model never raises; whenever loading the saved
\* artifact fails, or no saved artifact exists and training fails, the
\* engine holds no model afterwards and every call is graded by the rules;
\* when it succeeds (loading, or training in the absence of saved files)
\* the engine holds the model.
C7_FailedStartupIsRuleBased ==
  startup.done =>
    /\ ~startup.raised
    /\ startup.failed =>
         /\ NoArtifact
         /\ call.seq > 0 => call.grader = "rules"
    /\ ~startup.failed => model # None

\* C7 witness: a call graded after a load that failed at its second file
C7_Witness ==
  /\ startup.done
  /\ startup.files_exist
  /\ startup.fails_at = "vectorizer"
  /\ startup.failed
  /\ call.seq > 0
  /\ call.loaded
  /\ call.grader = "rules"

\* C8: model, vectorizer and label decoder are all three present or all
\* three absent, before load_or_train_model and after it, whichever step
\* of loading or training failed.
C8_AllOrNothing ==
  /\ (model = None) = (vectorizer = None)
  /\ (model = None) = (label_encoder = None)

\* C8 witness: training failed in RandomForestClassifier.fit, after the
\* three attributes had been assigned, and a call ran afterwards
C8_Witness ==
  /\ startup.done
  /\ ~startup.files_exist
  /\ startup.fails_at = "fit"
  /\ NoArtifact
  /\ call.seq > 0
  /\ call.loaded

\* C9: a score_product call that returns a non-default result adds exactly
\* 1 to total_predictions and to the count of the returned grade, and
\* leaves the other four counts as they were.
C9_CountsOneCall ==
  [][(call'.seq = call.seq + 1 /\ ~call'.raised /\ ~call'.handled) =>
       /\ stats'.total_predictions = stats.total_predictions + 1
       /\ \A g \in Grades :
            stats'.grade_distribution[g]
              = stats.grade_distribution[g]
                + (IF g = call'.result.grade THEN 1 ELSE 0)]_vars

\* C9 witness: two calls were counted, the last one under grade E
C9_Witness ==
  /\ call.seq > 1
  /\ ~call.handled
  /\ call.result.grade = "E"
  /\ stats.total_predictions = 2
  /\ stats.grade_distribution["E"] >= 1

----------------------------------------------------------------------------
(* Properties of concurrent score_product calls (SpecConc)                 *)

\* every request thread has returned from score_product
AllReturned == \A t \in Threads : pc[t] = "done"

\* C10: when the concurrent score_product calls have all returned,
\* total_predictions has grown by the number of calls and each grade count
\* by the number of calls that returned that grade: no increment is lost.
C10_NoLostUpdate ==
  AllReturned =>
    /\ stats.total_predictions = NThreads
    /\ \A g \in Grades :
         stats.grade_distribution[g]
           = Cardinality({t \in Threads : frame[t].result.grade = g})

----------------------------------------------------------------------------
(* Properties of the result fields and of grader selection (Spec)          *)

\* the fields of a result that are computed from the title and the grade
\* alone (green_message is drawn at random, timestamp is the clock)
DeterminedFields ==
  {"grade", "co2_impact", "recyclable", "renewable_materials",
   "packaging_score", "supply_chain_score", "confidence"}

Determined(result) == [f \in DeterminedFields |-> result[f]]

\* C11: the determined fields of a score_product result depend on the
\* title, the grader mode and what the inference did, and on nothing else:
\* they are what a scorer with fresh statistics returns, and a call that
\* repeats the previous call's title in the same mode returns the previous
\* call's values.
C11_Deterministic ==
  [][call'.seq = call.seq + 1 =>
       /\ ~call'.raised
       /\ Determined(call'.result)
            = Determined(score_product(initial_stats, model, vectorizer,
                                       label_encoder, call'.title,
                                       call'.inference, 1).result)
       /\ (/\ call.seq > 0
           /\ call'.title = call.title
           /\ call'.inference = call.inference
           /\ ModelMode(call') = ModelMode(call))
            => Determined(call'.result) = Determined(call.result)]_vars

\* C11 witness: the bamboo title was graded A by the rules twice (no other
\* title of the model gets an A from the rules), the second time with its
\* category already in the categories-seen set
C11_Witness ==
  /\ call.seq = 2
  /\ call.title = title_bamboo
  /\ call.grader = "rules"
  /\ ~call.handled
  /\ stats.grade_distribution["A"] = 2
  /\ "food" \in stats.categories_processed

\* the artifact is loaded: model, vectorizer and label decoder are all held
ArtifactLoaded ==
  Truthy(model) /\ Truthy(vectorizer) /\ Truthy(label_encoder)

\* what C18 says of grader selection in one call, whatever it says of the
\* returned grade
GraderSelected ==
  /\ ModelMode(call') = ArtifactLoaded
  /\ ~ArtifactLoaded =>
       /\ call'.grader = "rules"
       /\ call'.inference = NoInference
       /\ ~call'.handled =>
            call'.result.grade = evaluated[call'.title].score_with_rules.val

\* C18 as stated: the model grader is attempted exactly when the artifact
\* is loaded, the decoded label of a successful inference is the returned
\* grade, and without an artifact the rule-based grader alone decides.
\* (Fails: the call ends in the default grade C when the label is no grade
\* or the title is no str.)
C18_Original ==
  [][call'.seq = call.seq + 1 =>
       /\ ~call'.raised
       /\ GraderSelected
       /\ call'.grader = "model" =>
            call'.result.grade = call'.inference.label]_vars

\* C18 amended: the model grader is attempted exactly when the artifact is
\* loaded; the decoded label of a successful inference is the returned
\* grade unless a later step of the call raises (the label is no key of
\* the grade counters, or the title is no str), and then the call returns
\* the default result; without an artifact the rule-based grader alone
\* decides.
C18_GraderSelection ==
  [][call'.seq = call.seq + 1 =>
       /\ ~call'.raised
       /\ GraderSelected
       /\ call'.grader = "model" =>
            /\ call'.handled = (\/ call'.inference.label \notin Grades
                                \/ call'.title.type # "str")
            /\ ~call'.handled => call'.result.grade = call'.inference.label
            /\ call'.handled => call'.result = get_default_score]_vars

\* C18 witness: with the artifact loaded, the model decoded D for the
\* bamboo title (which the rules grade A) and D was returned
C18_Witness ==
  /\ call.seq > 0
  /\ ArtifactLoaded
  /\ call.grader = "model"
  /\ call.title = title_bamboo
  /\ call.inference.label = "D"
  /\ ~call.handled
  /\ call.result.grade = "D"


----------------------------------------------------------------------------
(* Properties of the methods called directly (SpecPure)                    *)

PackagingScale == {"Excellent", "Good", "Average", "Poor"}

SupplyChainScale == {"Excellent", "Good", "Unknown"}

\* C12 as stated: in every result of score_product, packaging_score is one
\* of Excellent, Good, Average, Poor and supply_chain_score one of
\* Excellent, Good, Unknown.  (Fails: the default result has packaging_score
\* "Unknown".)
C12_Original ==
  call.seq > 0 =>
    /\ ~call.raised
    /\ call.result.packaging_score \in PackagingScale
    /\ call.result.supply_chain_score \in SupplyChainScale

\* C12 amended: in every result that is not the default result,
\* packaging_score is one of Excellent, Good, Average, Poor and
\* supply_chain_score one of Excellent, Good, Unknown; in the default result
\* both are "Unknown".
C12_ScalesOfScoredResult ==
  call.seq > 0 =>
    /\ ~call.raised
    /\ ~call.handled =>
         /\ call.result.packaging_score \in PackagingScale
         /\ call.result.supply_chain_score \in SupplyChainScale
    /\ call.handled =>
         /\ call.result.packaging_score = "Unknown"
         /\ call.result.supply_chain_score = "Unknown"

\* C12 witness: the cardboard box title was scored Good on both scales
C12_Witness ==
  /\ call.seq > 0
  /\ call.title = title_box
  /\ ~call.handled
  /\ call.result.packaging_score = "Good"
  /\ call.result.supply_chain_score = "Good"

\* the CO2 multiplier of a detected category, in tenths (1.0 for "other")
Co2MultiplierOf(category) ==
  IF category \in DOMAIN co2_multipliers THEN co2_multipliers[category] ELSE 10

\* C13: in every result that is not the default result, co2_impact is the
\* base value of the returned grade times the CO2 multiplier of the title's
\* category, written with one decimal place and followed by " kg" and
\* nothing else.  (Fails: the code appends " kg CO" and three more
\* characters.)
C13_Co2TextEndsInKg ==
  (call.seq > 0 /\ ~call.raised /\ ~call.handled) =>
    call.result.co2_impact
      = format_1f(base_impact[call.result.grade],
                  Co2MultiplierOf(evaluated[call.title].category))
        \o <<" ","k","g">>

----------------------------------------------------------------------------
(* Properties of get_stats (SpecStats)                                     *)

\* C14: get_stats is a read-only snapshot: the call changes neither
\* total_predictions, nor a grade count, nor the categories-seen set, it
\* returns their values, and what the caller afterwards writes into the
\* returned grade_distribution or category list changes none of them.
C14_StatsSnapshot ==
  [][/\ (snapshot' # snapshot /\ snapshot'.by = "get_stats") =>
          /\ stats' = stats
          /\ snapshot'.val.total_predictions = stats.total_predictions
          /\ snapshot'.val.grade_distribution.items = stats.grade_distribution
          /\ snapshot'.val.categories_processed.items
               = stats.categories_processed
     /\ (snapshot' # snapshot /\ snapshot'.by = "caller") => stats' = stats]_vars

\* C14 witness: the caller has set the count of grade A to 0 in the dict
\* get_stats returned, after one call was counted under A, and the engine
\* still counts it
C14_Witness ==
  /\ snapshot.taken
  /\ snapshot.by = "caller"
  /\ snapshot.val.total_predictions = 1
  /\ snapshot.val.grade_distribution.items["A"] = 0
  /\ stats.grade_distribution["A"] = 1

\* prepare_features has been applied to the title
Normalized == probe.op \in {"prepare_features", "prepare_features_again"}

\* C15: prepare_features on one title is total and idempotent: it returns a
\* str for every title, the empty one included, and applied to what it
\* returned it returns the same str.
C15_NormalizerIdempotent ==
  /\ Normalized => probe.out.type = "str"
  /\ probe.op = "prepare_features_again" =>
       /\ probe.again.type = "str"
       /\ probe.again = probe.out

\* C15 witness: the shirt title, normalized to a str with a run of three
\* spaces, was normalized again
C15_Witness ==
  /\ probe.op = "prepare_features_again"
  /\ probe.title = title_shirt
  /\ probe.out = Str(<<"o","r","g","a","n","i","c"," ","c","o","t","t","o","n"," ","t","s","h","i","r","t"," "," "," ","r","e","c","y","c","l","e","d">>)
  /\ probe.again = probe.out

\* the characters of a str that are whitespace, in order
Spaces(s) == SelectSeq(s, is_space)

IsLowerLetter(c) == \E i \in 1..Len(LowerLetters) : LowerLetters[i] = c

IsLetter(c) ==
  IsLowerLetter(c) \/ \E i \in 1..Len(UpperLetters) : UpperLetters[i] = c

\* C16 as stated: the normalizer lower-cases, removes what is neither a
\* Latin letter nor whitespace, and collapses whitespace: no two whitespace
\* characters follow each other in its output, and an empty or
\* whitespace-only title normalizes to the empty string.  (Fails: runs of
\* whitespace are kept.)
C16_Original ==
  (Normalized /\ probe.title.type = "str") =>
    /\ \A i \in 1..Len(probe.out.chars) :
         IsLowerLetter(probe.out.chars[i]) \/ is_space(probe.out.chars[i])
    /\ \A i \in 1..(Len(probe.out.chars) - 1) :
         ~(is_space(probe.out.chars[i]) /\ is_space(probe.out.chars[i + 1]))
    /\ (\A i \in 1..Len(probe.title.chars) : is_space(probe.title.chars[i]))
         => probe.out.chars = <<>>

\* C16 amended: the normalizer lower-cases and removes what is neither a
\* Latin letter nor whitespace, and leaves whitespace as it is: its output
\* holds lower-case Latin letters and whitespace only, the letters are the
\* title's letters lower-cased, every whitespace character of the title is
\* kept, and the empty title normalizes to the empty string.
C16_NormalizerKeepsWhitespace ==
  (Normalized /\ probe.title.type = "str") =>
    /\ \A i \in 1..Len(probe.out.chars) :
         IsLowerLetter(probe.out.chars[i]) \/ is_space(probe.out.chars[i])
    /\ SelectSeq(probe.out.chars, IsLowerLetter)
         = str_lower(SelectSeq(probe.title.chars, IsLetter))
    /\ Spaces(probe.out.chars) = Spaces(probe.title.chars)
    /\ probe.title.chars = <<>> => probe.out.chars = <<>>

\* C16 witness: the title of three spaces was normalized, to itself
C16_Witness ==
  /\ probe.op = "prepare_features"
  /\ probe.title = title_spaces
  /\ probe.out = title_spaces

\* the title is a str without a character that is not whitespace
Blank(title) ==
  /\ title.type = "str"
  /\ \A i \in 1..Len(title.chars) : is_space(title.chars[i])

\* C17: an empty or whitespace-only title given directly to the grading
\* methods does not raise: _detect_category returns "other" (and records no
\* category), the rule score stays at 50 x 1.0 = 50 (5000 hundredths) and
\* _score_with_rules returns C.
C17_BlankTitleIsGradedC ==
  Blank(probe.title) =>
    /\ probe.op = "score_with_rules" =>
         /\ ~probe.out.exc
         /\ probe.out.grade = "C"
         /\ probe.out.score = Ok(5000)
         /\ stats.categories_processed = {}
    /\ probe.op = "detect_category" =>
         /\ probe.out = "other"
         /\ stats.categories_processed = {}

\* C17 witness: _score_with_rules returned for the title of three spaces
C17_Witness ==
  /\ probe.op = "score_with_rules"
  /\ probe.title = title_spaces
  /\ ~probe.out.exc
  /\ probe.out.grade = "C"

\* the keywords of a tier of the lexicon that are substrings of a title, the
\* title taken in lower case
KeywordsIn(title, tier) ==
  LET keywords ==
        sustainability_keywords[
          CHOOSE n \in 1..Len(sustainability_keywords) :
            sustainability_keywords[n].category = tier].keywords
  IN  {keywords[k] : k \in {j \in 1..Len(keywords) :
                              str_contains(str_lower(title.chars), keywords[j])}}

\* the multipliers C19 lists, in hundredths
ListedMultiplier(category) ==
  CASE category = "electronics" -> 80
    [] category = "clothing"    -> 90
    [] category = "food"        -> 110
    [] category = "home"        -> 100
    [] category = "beauty"      -> 95
    [] category = "toys"        -> 85
    [] category = "books"       -> 105
    [] category = "automotive"  -> 70
    [] category = "garden"      -> 120
    [] category = "health"      -> 100
    [] OTHER                    -> 100

\* the score C19 gives a title, in hundredths
ListedScore(title) ==
  (50 + 20 * Cardinality(KeywordsIn(title, "excellent"))
      + 10 * Cardinality(KeywordsIn(title, "good"))
      + 0  * Cardinality(KeywordsIn(title, "average"))
      - 10 * Cardinality(KeywordsIn(title, "poor"))
      - 20 * Cardinality(KeywordsIn(title, "very_poor")))
  * ListedMultiplier(evaluated[title].category)

\* C19: the rule-based score of a title is 50 plus, for every lexicon
\* keyword that is a substring of the (lower-cased) title, its tier's delta
\* (excellent +20, good +10, average 0, poor -10, very_poor -20), times the
\* multiplier of the detected category; a keyword counts once however often
\* it occurs, and the hits of all tiers add up.
C19_RuleScore ==
  /\ \A c \in DOMAIN category_multipliers :
       category_multipliers[c] = ListedMultiplier(c)
  /\ (probe.op = "score_with_rules" /\ probe.title.type = "str") =>
       /\ ~probe.out.exc
       /\ probe.out.score = Ok(ListedScore(probe.title))

\* C19 witness: the cups title, which holds "plastic" twice and
\* "disposable" once, scored 50 - 10 - 10 = 30; so did the steel title with
\* one good and one excellent keyword, 50 + 10 + 20 = 80
C19_Witness ==
  /\ probe.op = "score_with_rules"
  /\ \/ probe.title = title_cups /\ probe.out.score = Ok(3000)
     \/ probe.title = title_steel /\ probe.out.score = Ok(8000)

\* the grade C20 gives a score (in hundredths)
ListedGrade(score) ==
  CASE score >= 8000                 -> "A"
    [] score >= 6500 /\ score < 8000 -> "B"
    [] score >= 4500 /\ score < 6500 -> "C"
    [] score >= 3000 /\ score < 4500 -> "D"
    [] score < 3000                  -> "E"

\* grades in order: E is the worst, A the best
GradeRank(grade) ==
  CASE grade = "E" -> 1 [] grade = "D" -> 2 [] grade = "C" -> 3
    [] grade = "B" -> 4 [] grade = "A" -> 5

\* C20: the rule-based grader maps the final score to a grade with
\* inclusive lower bounds (>= 80 A, >= 65 B, >= 45 C, >= 30 D, else E): a
\* score on a bound gets the higher grade, and no lower score gets a
\* better grade.
C20_GradeBounds ==
  probe.op = "score_to_grade" =>
    /\ probe.out = ListedGrade(probe.score)
    /\ \A x \in ScoreValues :
         x <= probe.score =>
           GradeRank(score_to_grade(x)) <= GradeRank(probe.out)

\* C20 witness: the score 65.0, on a bound, was graded B
C20_Witness ==
  /\ probe.op = "score_to_grade"
  /\ probe.score = 6500
  /\ probe.out = "B"


----------------------------------------------------------------------------
(* C21: the order of category detection *)

\* the order of the categories that C21 lists
ListedOrder ==
  <<"electronics", "clothing", "food", "home", "beauty", "toys", "books",
    "automotive", "garden", "health">>

\* a keyword of the named category is a substring of the title, the title
\* taken in lower case
CategoryMatches(title, name) ==
  \E n \in 1..Len(category_keywords) :
    /\ category_keywords[n].category = name
    /\ \E k \in 1..Len(category_keywords[n].keywords) :
         str_contains(str_lower(title.chars), category_keywords[n].keywords[k])

\* the positions in the listed order of the categories that match a title
MatchingPositions(title) ==
  {n \in 1..Len(ListedOrder) : CategoryMatches(title, ListedOrder[n])}

\* C21: category detection returns the first category, in the order
\* electronics, clothing, food, home, beauty, toys, books, automotive, garden,
\* health, one of whose keywords is a substring of the title, and other when
\* no category has one; a title with an electronics keyword and a clothing
\* keyword resolves to electronics.
C21_FirstCategoryWins ==
  /\ [n \in 1..Len(category_keywords) |-> category_keywords[n].category]
       = ListedOrder
  /\ probe.op = "detect_category" =>
       /\ IF MatchingPositions(probe.title) = {}
            THEN probe.out = "other"
            ELSE \E n \in MatchingPositions(probe.title) :
                   /\ probe.out = ListedOrder[n]
                   /\ \A m \in MatchingPositions(probe.title) : n <= m
       /\ (CategoryMatches(probe.title, "electronics")
             /\ CategoryMatches(probe.title, "clothing"))
            => probe.out = "electronics"

\* C21 witness: the laptop title, which holds the electronics keyword
\* "laptop" and the clothing keyword "jacket", was detected as electronics
C21_Witness ==
  /\ probe.op = "detect_category"
  /\ probe.title = title_laptop
  /\ CategoryMatches(title_laptop, "electronics")
  /\ CategoryMatches(title_laptop, "clothing")
  /\ probe.out = "electronics"


----------------------------------------------------------------------------
(* C22: "Standard Cotton T-Shirt - Regular Fit" *)

\* the lexicon tiers other than average
OtherTiers == {"excellent", "good", "poor", "very_poor"}

\* C22: for the title "Standard Cotton T-Shirt - Regular Fit" the rule-based
\* path detects the category clothing, the title has hits in the average tier
\* only, so the accumulated score stays 50 and the multiplier 0.9 gives
\* exactly 45 (4500 hundredths), and the grade is C, whose lower bound 45 is
\* inclusive.
C22_StandardShirtIsC ==
  (probe.op = "score_with_rules" /\ probe.title = title_standard) =>
    /\ ~probe.out.exc
    /\ "clothing" \in stats.categories_processed
    /\ \A tier \in OtherTiers : KeywordsIn(title_standard, tier) = {}
    /\ KeywordsIn(title_standard, "average") # {}
    /\ probe.out.score = Ok(50 * 90)
    /\ probe.out.grade = "C"
    /\ ListedGrade(4500) = "C"
    /\ ListedGrade(4499) = "D"

\* C22 witness: the rule grader returned for the title, with the score 45
C22_Witness ==
  /\ probe.op = "score_with_rules"
  /\ probe.title = title_standard
  /\ probe.out.score = Ok(4500)
  /\ probe.out.grade = "C"
  /\ stats.categories_processed = {"clothing"}


----------------------------------------------------------------------------
(* C23: "Organic Bamboo Toothbrush - Biodegradable and Sustainable" *)

\* C23 as stated: for the title "Organic Bamboo Toothbrush - Biodegradable
\* and Sustainable" the rule-based grade is A and it is reached with category
\* other: no category keyword matches, and the multiplier applied to the
\* accumulated score is 1.0.
C23_Original ==
  (probe.op = "score_with_rules" /\ probe.title = title_bamboo) =>
    /\ ~probe.out.exc
    /\ probe.out.grade = "A"
    /\ MatchingPositions(title_bamboo) = {}
    /\ stats.categories_processed = {}
    /\ probe.out.score = Ok(130 * 100)

\* C23, amended: for the title "Organic Bamboo Toothbrush - Biodegradable and
\* Sustainable" the rule-based grade is A, and it is reached with category
\* food: the food keyword "organic" is a substring of the title and no
\* keyword of an earlier category is, so the accumulated score 130 is
\* multiplied by 1.1 and the final score is 143.
C23_BambooIsFoodGradeA ==
  (probe.op = "score_with_rules" /\ probe.title = title_bamboo) =>
    /\ ~probe.out.exc
    /\ probe.out.grade = "A"
    /\ CategoryMatches(title_bamboo, "food")
    /\ ~CategoryMatches(title_bamboo, "electronics")
    /\ ~CategoryMatches(title_bamboo, "clothing")
    /\ stats.categories_processed = {"food"}
    /\ probe.out.score = Ok(130 * 110)

\* C23 witness: the rule grader returned A for the title, with the score 143
\* and the category food recorded
C23_Witness ==
  /\ probe.op = "score_with_rules"
  /\ probe.title = title_bamboo
  /\ probe.out.grade = "A"
  /\ probe.out.score = Ok(14300)
  /\ "food" \in stats.categories_processed


----------------------------------------------------------------------------
(* C24: the priority of the recyclability tests *)

\* the words C24 lists as making a product recyclable
ListedRecyclableWords ==
  {<<"m","e","t","a","l">>,
   <<"a","l","u","m","i","n","u","m">>,
   <<"s","t","e","e","l">>,
   <<"g","l","a","s","s">>,
   <<"p","a","p","e","r">>,
   <<"c","a","r","d","b","o","a","r","d">>,
   <<"r","e","c","y","c","l","a","b","l","e">>}

\* the words C24 lists as making a product not recyclable
ListedNonRecyclableWords ==
  {<<"c","o","m","p","o","s","i","t","e">>,
   <<"m","i","x","e","d"," ","m","a","t","e","r","i","a","l","s">>,
   <<"l","a","m","i","n","a","t","e","d">>,
   <<"f","o","a","m">>}

\* one of the words is a substring of the title, the title taken in lower case
HasAny(title, words) ==
  \E w \in words : str_contains(str_lower(title.chars), w)

\* the category C21 gives a title
ListedCategory(title) ==
  IF MatchingPositions(title) = {}
    THEN "other"
    ELSE ListedOrder[CHOOSE n \in MatchingPositions(title) :
                       \A m \in MatchingPositions(title) : n <= m]

\* the value C24 gives the recyclable field of a title
ListedRecyclable(title) ==
  IF HasAny(title, ListedRecyclableWords) THEN TRUE
  ELSE IF HasAny(title, ListedNonRecyclableWords) THEN FALSE
  ELSE ListedCategory(title) \in {"electronics", "books", "home"}

\* the other cases of C24 among the titles scored: foam in a title of category home
\* (not recyclable), no word of either list in a title of category
\* electronics (recyclable) and of category food (not recyclable)
OtherRecyclableCases ==
  /\ ~HasAny(title_pillow, ListedRecyclableWords)
  /\ HasAny(title_pillow, ListedNonRecyclableWords)
  /\ ListedCategory(title_pillow) = "home"
  /\ ~ListedRecyclable(title_pillow)
  /\ ~HasAny(title_phone, ListedRecyclableWords \cup ListedNonRecyclableWords)
  /\ ListedRecyclable(title_phone)
  /\ ~HasAny(title_bamboo, ListedRecyclableWords \cup ListedNonRecyclableWords)
  /\ ~ListedRecyclable(title_bamboo)

\* C24: recyclability is decided in strict priority: a title with one of
\* metal, aluminum, steel, glass, paper, cardboard, recyclable is recyclable
\* even when it also holds composite, mixed materials, laminated or foam;
\* otherwise a title with one of those four is not; otherwise the title is
\* recyclable exactly when its detected category is electronics, books or
\* home.
C24_RecyclablePriority ==
  (probe.op = "score_product" /\ ~call.handled) =>
    /\ OtherRecyclableCases
    /\ call.result.recyclable = ListedRecyclable(call.title)
    /\ HasAny(call.title, ListedRecyclableWords) => call.result.recyclable

\* C24 witness: the notebook title, which holds "cardboard" and "laminated",
\* was scored recyclable
C24_Witness ==
  /\ probe.op = "score_product"
  /\ ~call.handled
  /\ call.title = title_notebook
  /\ HasAny(title_notebook, ListedRecyclableWords)
  /\ HasAny(title_notebook, ListedNonRecyclableWords)
  /\ call.result.recyclable = TRUE

----------------------------------------------------------------------------
(* C25: the confidence formula *)

\* the lexicon tiers
Tiers == {"excellent", "good", "average", "poor", "very_poor"}

\* k of C25: the lexicon keywords, of all tiers, that are substrings of the
\* title, each counted once
ListedHits(title) ==
  Cardinality(UNION {KeywordsIn(title, tier) : tier \in Tiers})

\* the whitespace-delimited words of a title, counted at their last character
ListedWords(title) ==
  Cardinality({i \in 1..Len(title.chars) :
                 /\ title.chars[i] \notin {" ", "\t", "\n"}
                 /\ (i = Len(title.chars)
                       \/ title.chars[i + 1] \in {" ", "\t", "\n"})})

Min(a, b) == IF a <= b THEN a ELSE b

\* the confidence C25 gives a title, in hundredths
ListedConfidence(title) ==
  Min(50 + Min(20 * ListedHits(title), 40)
         + (IF ListedWords(title) >= 4 THEN 10 ELSE 0),
      95)

\* C25: in every result that is not the default result, confidence is
\* min(0.5 + min(k / 5, 0.4) + w, 0.95), k the number of lexicon keywords of
\* all tiers that are substrings of the title (each counted once), w = 0.1
\* for a title of at least 4 whitespace-delimited words and 0 otherwise; two
\* or more hits give the full 0.4, and 0.95 is reached only with at least
\* two hits and at least 4 words.
C25_ConfidenceFormula ==
  (probe.op = "score_product" /\ ~call.handled) =>
    /\ call.result.confidence = ListedConfidence(call.title)
    /\ ListedHits(call.title) >= 2 =>
         call.result.confidence >= 90
    /\ call.result.confidence = 95 <=>
         (ListedHits(call.title) >= 2 /\ ListedWords(call.title) >= 4)

\* C25 witness: a title of three words with two hits was given 0.9, or a
\* title of four words or more with one hit 0.8, or the bamboo title, four
\* hits and seven words, the cap 0.95
C25_Witness ==
  /\ probe.op = "score_product"
  /\ ~call.handled
  /\ \/ /\ call.title = title_eco
        /\ ListedHits(title_eco) = 2
        /\ ListedWords(title_eco) = 3
        /\ call.result.confidence = 90
     \/ /\ call.title = title_cable
        /\ ListedHits(title_cable) = 1
        /\ ListedWords(title_cable) = 5
        /\ call.result.confidence = 80
     \/ /\ call.title = title_bamboo
        /\ call.result.confidence = 95


----------------------------------------------------------------------------
(* C26: the text the rule grader and the enrichment methods match on *)

\* normalize(t): what prepare_features makes of a title
NormalizedTitle(title) == prepare_features(<<title>>)[1]

\* t.lower(): the title in lower case, no character removed
LoweredTitle(title) == Str(str_lower(title.chars))

\* the rule-based grade and the enrichment signals obtained from a text
SignalsFrom(text) ==
  LET grade == score_with_rules_value(text).val
  IN  [grade               |-> grade,
       co2_impact          |-> estimate_co2_impact(text, grade).val,
       recyclable          |-> assess_recyclability(text).val,
       renewable_materials |-> assess_renewable_materials(text).val,
       packaging_score     |-> assess_packaging(text).val,
       supply_chain_score  |-> assess_supply_chain(text).val]

\* the same fields of a result
SignalsOf(result) ==
  [grade               |-> result.grade,
   co2_impact          |-> result.co2_impact,
   recyclable          |-> result.recyclable,
   renewable_materials |-> result.renewable_materials,
   packaging_score     |-> result.packaging_score,
   supply_chain_score  |-> result.supply_chain_score]

----------------------------------------------------------------------------
(* C27: the tiers of the lexicon are disjoint *)

\* the keyword strings of the n-th tier of a lexicon
TierSet(lexicon, n) ==
  {lexicon[n].keywords[k] : k \in 1..Len(lexicon[n].keywords)}

\* no keyword string is in two tiers of the lexicon, and its tiers are the
\* five named ones
PairwiseDisjoint(lexicon) ==
  /\ Len(lexicon) = 5
  /\ {lexicon[n].category : n \in 1..Len(lexicon)} = Tiers
  /\ \A m, n \in 1..Len(lexicon) :
       m # n => TierSet(lexicon, m) \cap TierSet(lexicon, n) = {}

\* C27: the five tiers of the scoring lexicon are pairwise disjoint, in the
\* scorer's lexicon and in the data processor's: no keyword string is in the
\* list of two tiers, so a keyword found in a title is a hit of one tier
\* only and contributes one tier delta to the rule score.
C27_TiersDisjoint ==
  /\ PairwiseDisjoint(sustainability_keywords)
  /\ PairwiseDisjoint(dp_sustainability_keywords)
  /\ (probe.op = "score_with_rules" /\ probe.title.type = "str") =>
       /\ \A w \in UNION {KeywordsIn(probe.title, tier) : tier \in Tiers} :
            Cardinality({tier \in Tiers : w \in KeywordsIn(probe.title, tier)})
              = 1
       /\ probe.out.score = Ok(ListedScore(probe.title))

\* C27 witness: the steel title, with a keyword of the good tier and a
\* keyword of the excellent tier, was scored 50 + 10 + 20
C27_Witness ==
  /\ probe.op = "score_with_rules"
  /\ probe.title = title_steel
  /\ KeywordsIn(title_steel, "good") # {}
  /\ KeywordsIn(title_steel, "excellent") # {}
  /\ KeywordsIn(title_steel, "good") \cap KeywordsIn(title_steel, "excellent")
       = {}
  /\ probe.out.score = Ok(8000)


----------------------------------------------------------------------------
(* C28: the total and the grade counts *)

\* the sum of the five grade_distribution counts
SumOfCounts(st) ==
  st.grade_distribution["A"] + st.grade_distribution["B"]
    + st.grade_distribution["C"] + st.grade_distribution["D"]
    + st.grade_distribution["E"]

\* C28: after any sequence of completed score_product calls on one scorer,
\* run one after another in either grader mode, calls that ended in the
\* default result included, total_predictions equals the sum of the five
\* grade_distribution counts.  (Fails: a call whose grader raises, or whose
\* decoded label is no grade, has added 1 to total_predictions and nothing
\* to a count when it returns the default result.)
C28_TotalIsSumOfCounts ==
  stats.total_predictions = SumOfCounts(stats)


----------------------------------------------------------------------------
(* C29: the categories-seen set (SpecStats) *)

\* the elements of a sequence
Range(s) == {s[i] : i \in 1..Len(s)}

\* C29: the categories-seen set only grows; a step adds a category only if
\* it is a score_product call and the category is the one detected for the
\* call's title; the set is always a subset of the ten categories that
\* get_supported_categories returns (electronics, clothing, food, home,
\* beauty, toys, books, automotive, garden, health, in this order) and never
\* contains other.
C29_CategoriesSeen ==
  [][/\ stats.categories_processed \subseteq stats'.categories_processed
     /\ stats'.categories_processed \ stats.categories_processed
          \subseteq (IF call'.seq = call.seq + 1
                       THEN {evaluated[call'.title].category} ELSE {})
     /\ get_supported_categories = ListedOrder
     /\ stats'.categories_processed \subseteq Range(get_supported_categories)
     /\ "other" \notin stats'.categories_processed]_vars

\* C29 witness: after a call on a food title and a call on an electronics
\* title the set holds both categories; or a title of no category was scored
\* last and the set holds food alone
C29_Witness ==
  /\ call.seq = 2
  /\ ~call.handled
  /\ \/ stats.categories_processed = {"food", "electronics"}
     \/ /\ call.title = title_toxic
        /\ evaluated[title_toxic].category = "other"
        /\ stats.categories_processed = {"food"}


----------------------------------------------------------------------------
(* C30: a Good packaging score and the recyclable field *)

\* the two triggers of the Good packaging score, as C30 names them
ListedGoodTriggers ==
  {<<"r","e","c","y","c","l","a","b","l","e"," ","p","a","c","k","a","g","i","n","g">>,
   <<"c","a","r","d","b","o","a","r","d">>}

\* C30: in every result of score_product that is not the default result,
\* packaging_score = Good implies recyclable = true: each trigger of the
\* Good score (recyclable packaging, cardboard) holds a recyclable keyword,
\* and the recyclable keywords are tested before the non-recyclable ones and
\* before the category default.
C30_GoodPackagingIsRecyclable ==
  /\ Range(packaging_good_words) = ListedGoodTriggers
  /\ \A trigger \in ListedGoodTriggers :
       \E w \in ListedRecyclableWords : str_contains(trigger, w)
  /\ (probe.op = "score_product" /\ ~call.handled) =>
       /\ call.result.packaging_score = "Good" =>
            /\ HasAny(call.title, ListedGoodTriggers)
            /\ call.result.recyclable = TRUE

\* C30 witness: a title with a Good trigger and a non-recyclable keyword, in
\* a category that is not recyclable by default or in one that is, was scored
\* Good and recyclable
C30_Witness ==
  /\ probe.op = "score_product"
  /\ ~call.handled
  /\ call.title \in {title_insert, title_notebook}
  /\ HasAny(call.title, ListedNonRecyclableWords)
  /\ call.result.packaging_score = "Good"
  /\ call.result.recyclable = TRUE

=============================================================================
